---- MODULE Spec2Model ----
(***************************************************************************)
(* Course manager: an ordered hierarchy of modules and lessons kept in a   *)
(* relational store (tables modules, lessons, snapshots) and edited by a   *)
(* browser session (CourseManager, ModuleCard, SnapshotManager,            *)
(* ImportDialog).  A handler is one action where it runs alone; the        *)
(* actions named ...Call and ...Answer split a handler at its awaits, so   *)
(* that handlers of the session, and of a second session, overlap.  A      *)
(* store request may fail, which ends its handler through the catch block. *)
(***************************************************************************)
EXTENDS Integers, Sequences, FiniteSets, TLC

\* ---------------------------------------------------------------- bounds
MaxModules == 3     \* modules in the session's list
MaxLessons == 3     \* lessons in the session's list, all modules together
MaxDeletes == 1     \* delete requests in one run
MaxSnapshots == 1   \* rows of the table snapshots
MaxItems == 3       \* elements of a pasted JSON array
MaxPastes == 2      \* texts put into the import dialog in one run
MaxFaults == 1      \* failing requests in one run of a faulty store
MaxTasks == 2       \* handlers of one session that await the store at a time
MaxOverlap == 2     \* modules of a list whose handlers overlap

\* ---------------------------------------------------------------- values
ModuleInputs == {"M1", "M2"}
LessonInputs == {[title |-> "L1", video_iframe |-> ""],
                 [title |-> "L2", video_iframe |-> "v"]}
SnapshotNames == {"s"}

\* A JavaScript property value that is a string, or null / undefined (<<>>).
Str(s) == <<s>>
Undef == <<>>
\* Variant: only a missing property counts as absent, "" passes.
TruthyLoose(x) == x # <<>>

\* JavaScript truthiness of such a value: !x holds for undefined, null and "".
Truthy(x) == x # <<>> /\ x[1] # ""
\* Variant: falsy video markup is replaced by a placeholder.
OrEmptyDefault(x) == IF Truthy(x) THEN x[1] ELSE "none"

\* x || '' as used for videoIframe.
OrEmpty(x) == IF Truthy(x) THEN x[1] ELSE ""

VARIABLES
    dbModules,      \* table modules: set of [id, name, position]
    dbLessons,      \* table lessons: set of [id, module_id, title, video_iframe, position]
    dbSnapshots,    \* table snapshots, newest first: Seq of [id, name, data]
    modules,        \* CourseManager state: Seq of Module (with nested lessons)
    loading,        \* CourseManager state
    active,         \* the item being dragged (DndContext), or none
    snapOpen,       \* SnapshotManager isOpen
    snapshots,      \* SnapshotManager state: Seq of snapshot rows
    importOpen,     \* ImportDialog isOpen
    jsonInput,      \* ImportDialog state: the pasted text
    previewData,    \* ImportDialog state: validated array or null
    importError,    \* ImportDialog state: error != ''
    faults,         \* how many more requests the store is going to fail
    deletes,        \* delete requests issued so far
    pastes,         \* texts put into the import dialog so far
    lastOp,         \* the handler that ran last and its outcome
    reqs,           \* the store requests the last handler issued, in order
    captured,       \* store content when the last snapshot was captured
    tasks,          \* the handlers of the session that await an answer of the store
    peer            \* a second session on the same store: its list and its handler

vars == <<dbModules, dbLessons, dbSnapshots, modules, loading, active, snapOpen,
          snapshots, importOpen, jsonInput, previewData, importError, faults,
          deletes, pastes, lastOp, reqs, captured, tasks, peer>>

\* ------------------------------------------------------- sequence helpers
Range(s) == {s[i] : i \in DOMAIN s}

\* findIndex(x => `module-${x.id}` === id): zero-based index of the first
\* element with that id, -1 when there is none
FindIndex(s, id) ==
    IF \E i \in DOMAIN s : s[i].id = id
    THEN (CHOOSE i \in DOMAIN s : s[i].id = id /\ \A j \in 1..(i - 1) : s[j].id # id) - 1
    ELSE -1

\* Array.prototype.splice(start, 1) on s: the array left and the element removed.
\* A negative start counts from the end (clamped at 0); a start past the end
\* removes nothing.
SpliceStart(len, start) ==
    IF start < 0 THEN (IF len + start < 0 THEN 0 ELSE len + start)
    ELSE (IF start > len THEN len ELSE start)

SpliceRemove1(s, start) ==
    LET k == SpliceStart(Len(s), start) IN
    IF k >= Len(s) THEN [rest |-> s, removed |-> <<>>]
    ELSE [rest |-> SubSeq(s, 1, k) \o SubSeq(s, k + 2, Len(s)),
          removed |-> <<s[k + 1]>>]

\* Array.prototype.splice(start, 0, x)
SpliceInsert(s, start, x) ==
    LET k == SpliceStart(Len(s), start) IN
    SubSeq(s, 1, k) \o <<x>> \o SubSeq(s, k + 1, Len(s))

\* Variant: a reorder that exchanges the two elements.
ArrayMoveSwap(s, from, to) ==
    IF from + 1 \in DOMAIN s /\ to + 1 \in DOMAIN s
    THEN [i \in DOMAIN s |->
            IF i = from + 1 THEN s[to + 1] ELSE IF i = to + 1 THEN s[from + 1] ELSE s[i]]
    ELSE s

\* arrayMove(array, from, to) of @dnd-kit/sortable:
\*   newArray.splice(to < 0 ? newArray.length + to : to, 0, newArray.splice(from, 1)[0])
\* The insertion index is computed before the removal; from = -1 (findIndex found
\* nothing) removes the last element.  On an empty array nothing is removed; the
\* handlers never get there, since a drop needs a rendered target.
ArrayMove(s, from, to) ==
    LET at == IF to < 0 THEN Len(s) + to ELSE to
        r == SpliceRemove1(s, from)
    IN  IF r.removed = <<>> THEN s ELSE SpliceInsert(r.rest, at, r.removed[1])

\* ------------------------------------------------------------------- ids
\* gen_random_uuid(): an id that occurs nowhere in its table nor in the session.
\* Ids are only compared for equality within one table, so the least unused
\* number stands for the new id.
LocalLessons == UNION {Range(modules[i].lessons) : i \in DOMAIN modules}

UsedModuleIds ==
    {m.id : m \in dbModules} \cup {m.id : m \in Range(modules)}
    \cup {l.module_id : l \in dbLessons \cup LocalLessons}
    \cup {active.card} \cup (IF active.type = "module" THEN {active.id} ELSE {})

UsedLessonIds ==
    {l.id : l \in dbLessons \cup LocalLessons}
    \cup (IF active.type = "lesson" THEN {active.id} ELSE {})

UsedSnapshotIds == {s.id : s \in Range(dbSnapshots) \cup Range(snapshots)}

RECURSIVE FreshIds(_, _)
FreshIds(n, used) ==
    IF n = 0 THEN <<>>
    ELSE LET i == CHOOSE i \in 1..(Cardinality(used) + 1) :
                      i \notin used /\ \A j \in 1..(i - 1) : j \in used
         IN  <<i>> \o FreshIds(n - 1, used \cup {i})

\* ----------------------------------------------------------------- store
\* A request to the store: [kind, table, id, rows]; rows are the inserted rows
\* or the updated columns.
Req(kind, table, id, rows) == [kind |-> kind, table |-> table, id |-> id, rows |-> rows]

\* Variant: a foreign key without ON DELETE CASCADE that lets the delete pass.
DbDeleteModuleKeep(ls, id) == ls

\* DELETE FROM modules WHERE id = ... ; lessons.module_id ... ON DELETE CASCADE
DbDeleteModule(ls, id) == {l \in ls : l.module_id # id}

\* .order('position'): every order of S that is ascending in position; rows of
\* equal position come in any order.
RECURSIVE OrderedBy(_)
OrderedBy(S) ==
    IF S = {} THEN {<<>>}
    ELSE LET firsts == {x \in S : \A y \in S : x.position <= y.position}
         IN  UNION {{<<x>> \o t : t \in OrderedBy(S \ {x})} : x \in firsts}

\* select id, name, position, lessons(...) order by position, lessons.position
RECURSIVE Nest(_, _)
Nest(ms, ls) ==
    IF ms = <<>> THEN {<<>>}
    ELSE LET m == Head(ms)
             own == {l \in ls : l.module_id = m.id}
         IN  {<<[id |-> m.id, name |-> m.name, position |-> m.position,
                 lessons |-> o]>> \o t :
                  o \in OrderedBy(own), t \in Nest(Tail(ms), ls)}

FetchResults(ms, ls) == UNION {Nest(o, ls) : o \in OrderedBy(ms)}

\* The effect of one successful request on the tables [modules, lessons].
DbApply(db, r) ==
    IF r.kind = "deleteAll" THEN
        \* .delete().neq('id', '00000000-...'): every row but the sentinel id 0,
        \* and by cascade every lesson of a deleted module
        LET kept == {m \in db.modules : m.id = 0}
        IN  [modules |-> kept,
             lessons |-> {l \in db.lessons : l.module_id \in {m.id : m \in kept}}]
    ELSE IF r.kind = "insert" /\ r.table = "modules" THEN
        [db EXCEPT !.modules = @ \cup Range(r.rows)]
    ELSE IF r.kind = "insert" /\ r.table = "lessons" THEN
        [db EXCEPT !.lessons = @ \cup Range(r.rows)]
    ELSE IF r.kind = "update" /\ r.table = "modules" THEN
        [db EXCEPT !.modules =
            {IF m.id = r.id THEN [m EXCEPT !.position = r.rows[1].position] ELSE m : m \in @}]
    ELSE IF r.kind = "update" /\ r.table = "lessons" THEN
        [db EXCEPT !.lessons =
            {IF l.id = r.id THEN [l EXCEPT !.position = r.rows[1].position] ELSE l : l \in @}]
    ELSE IF r.kind = "delete" /\ r.table = "modules" THEN
        [modules |-> {m \in db.modules : m.id # r.id},
         lessons |-> DbDeleteModule(db.lessons, r.id)]
    ELSE IF r.kind = "delete" /\ r.table = "lessons" THEN
        [db EXCEPT !.lessons = {l \in @ : l.id # r.id}]
    ELSE db

RECURSIVE DbApplyAll(_, _)
DbApplyAll(db, rs) ==
    IF rs = <<>> THEN db ELSE DbApplyAll(DbApply(db, Head(rs)), Tail(rs))

Db == [modules |-> dbModules, lessons |-> dbLessons]

\* A handler awaits its requests one after the other inside one try block and
\* throws at the first error: of the requests plan, the first nOk succeed and
\* are applied, the next one (if any) is issued and fails, the rest are never
\* issued.
Outcomes(plan) == IF faults > 0 THEN 0..Len(plan) ELSE {Len(plan)}

\* Variant: a request that failed is issued a second time.
IssuedRetry(plan, nOk) ==
    IF nOk < Len(plan) THEN SubSeq(plan, 1, nOk + 1) \o <<plan[nOk + 1]>> ELSE plan

Issued(plan, nOk) == SubSeq(plan, 1, IF nOk < Len(plan) THEN nOk + 1 ELSE Len(plan))

\* Variant: the requests of a handler form one transaction that is rolled back
\* when one of them fails.
RunAtomic(plan, nOk) ==
    LET db == IF nOk < Len(plan) THEN Db ELSE DbApplyAll(Db, plan) IN
    /\ dbModules' = db.modules
    /\ dbLessons' = db.lessons
    /\ reqs' = Issued(plan, nOk)
    /\ faults' = IF nOk < Len(plan) THEN faults - 1 ELSE faults

Run(plan, nOk) ==
    LET db == DbApplyAll(Db, SubSeq(plan, 1, nOk)) IN
    /\ dbModules' = db.modules
    /\ dbLessons' = db.lessons
    /\ reqs' = Issued(plan, nOk)
    /\ faults' = IF nOk < Len(plan) THEN faults - 1 ELSE faults

\* A handler that issues no request.
NoRequest == reqs' = <<>> /\ UNCHANGED <<dbModules, dbLessons, faults>>

Op(name, ok, a, b) == [op |-> name, ok |-> ok, a |-> a, b |-> b]

NoDrag == [type |-> "none", id |-> 0, card |-> 0]
NoText == [kind |-> "blank", isArray |-> FALSE, items |-> <<>>]
NoPreview == [set |-> FALSE, items |-> <<>>]
NoCapture == [kind |-> "none", id |-> 0, done |-> FALSE, content |-> <<>>]

\* A handler between its call and its return: the closure it was created in
\* (mods: the modules of that render, card: the id of its ModuleCard), its
\* argument, the requests it still has to get answered (the first one is in
\* flight) and the row its last insert returned.
NoTask == [op |-> "none", mods |-> <<>>, card |-> 0, arg |-> <<>>, todo |-> <<>>,
           data |-> <<>>]
NoTasks == [k \in 1..MaxTasks |-> NoTask]
NoPeer == [mounted |-> FALSE, modules |-> <<>>, todo |-> <<>>]

\* No handler is called, resumed or ended, in this session or the other.
TasksUnchanged == UNCHANGED <<tasks, peer>>

\* --------------------------------------------------------- CourseManager
\* useState defaults; the store is empty before the first session and answers
\* every request.
Init ==
    /\ dbModules = {}
    /\ dbLessons = {}
    /\ dbSnapshots = <<>>
    /\ modules = <<>>
    /\ loading = TRUE
    /\ active = NoDrag
    /\ snapOpen = FALSE
    /\ snapshots = <<>>
    /\ importOpen = FALSE
    /\ jsonInput = NoText
    /\ previewData = NoPreview
    /\ importError = FALSE
    /\ faults = 0
    /\ deletes = 0
    /\ pastes = 0
    /\ lastOp = Op("mount", TRUE, 0, 0)
    /\ reqs = <<>>
    /\ captured = NoCapture
    /\ tasks = NoTasks
    /\ peer = NoPeer

\* The same session over a store that fails up to MaxFaults of its requests.
InitFaulty ==
    /\ dbModules = {}
    /\ dbLessons = {}
    /\ dbSnapshots = <<>>
    /\ modules = <<>>
    /\ loading = TRUE
    /\ active = NoDrag
    /\ snapOpen = FALSE
    /\ snapshots = <<>>
    /\ importOpen = FALSE
    /\ jsonInput = NoText
    /\ previewData = NoPreview
    /\ importError = FALSE
    /\ faults \in 0..MaxFaults
    /\ deletes = 0
    /\ pastes = 0
    /\ lastOp = Op("mount", TRUE, 0, 0)
    /\ reqs = <<>>
    /\ captured = NoCapture
    /\ tasks = NoTasks
    /\ peer = NoPeer

\* While loading, CourseManager renders only the loading text: ModuleCard,
\* SnapshotManager and ImportDialog are unmounted and lose their state.
Unmounted ==
    /\ active' = NoDrag
    /\ snapOpen' = FALSE
    /\ snapshots' = <<>>
    /\ importOpen' = FALSE
    /\ jsonInput' = NoText
    /\ previewData' = NoPreview
    /\ importError' = FALSE

DialogsUnchanged ==
    UNCHANGED <<snapOpen, snapshots, importOpen, jsonInput, previewData, importError,
                dbSnapshots, pastes>>

\* fetchModules, from the await on: the answer of the select arrives.
FetchModules ==
    /\ loading
    /\ \E ok \in {TRUE} \cup {faults = 0} :
        /\ IF ok
           THEN \E res \in FetchResults(dbModules, dbLessons) : modules' = res
           ELSE modules' = modules
        /\ faults' = IF ok THEN faults ELSE faults - 1
        /\ lastOp' = Op("fetchModules", ok, 0, 0)
    /\ loading' = FALSE
    /\ reqs' = <<Req("select", "modules", 0, <<>>)>>
    /\ UNCHANGED <<dbModules, dbLessons, active, captured, deletes>>
    /\ DialogsUnchanged
    /\ TasksUnchanged

\* The dialogs are modal and a drag holds the pointer: while a dialog is open or
\* an item is dragged the user starts no handler of the page behind; a delete
\* clicked before a drag may still complete during it.
NoDialog == ~loading /\ ~snapOpen /\ ~importOpen

Idle == NoDialog /\ active = NoDrag

\* Variant: the new module is put into the list before the insert is awaited.
AddModuleOptimistic(names) ==
    /\ Idle
    /\ Len(modules) < MaxModules
    /\ \E newModuleName \in names :
        LET id == FreshIds(1, UsedModuleIds)[1]
            row == [id |-> id, name |-> newModuleName, position |-> Len(modules)]
            plan == <<Req("insert", "modules", id, <<row>>)>>
        IN  \E nOk \in Outcomes(plan) :
            /\ Run(plan, nOk)
            /\ modules' = Append(modules, [id |-> row.id, name |-> row.name,
                                           position |-> row.position, lessons |-> <<>>])
            /\ lastOp' = Op("addModule", nOk = 1, id, 0)
    /\ captured' = NoCapture
    /\ UNCHANGED <<loading, active, deletes>>
    /\ DialogsUnchanged
    /\ TasksUnchanged

\* Variant: the new module is put behind the highest position of the list.
AddModuleAfterLast(names) ==
    /\ Idle
    /\ Len(modules) < MaxModules
    /\ \E newModuleName \in names :
        LET id == FreshIds(1, UsedModuleIds)[1]
            last == {m.position : m \in Range(modules)}
            row == [id |-> id, name |-> newModuleName,
                    position |-> IF last = {} THEN 0
                                 ELSE 1 + CHOOSE x \in last : \A y \in last : y <= x]
            plan == <<Req("insert", "modules", id, <<row>>)>>
        IN  \E nOk \in Outcomes(plan) :
            /\ Run(plan, nOk)
            /\ modules' = IF nOk = 1
                          THEN Append(modules, [id |-> row.id, name |-> row.name,
                                                position |-> row.position, lessons |-> <<>>])
                          ELSE modules
            /\ lastOp' = Op("addModule", nOk = 1, id, 0)
    /\ captured' = NoCapture
    /\ UNCHANGED <<loading, active, deletes>>
    /\ DialogsUnchanged
    /\ TasksUnchanged

\* addModule, for a name typed into the dialog
AddModule(names) ==
    /\ Idle
    /\ Len(modules) < MaxModules
    /\ \E newModuleName \in names :
        LET id == FreshIds(1, UsedModuleIds)[1]
            row == [id |-> id, name |-> newModuleName, position |-> Len(modules)]
            plan == <<Req("insert", "modules", id, <<row>>)>>
        IN  \E nOk \in Outcomes(plan) :
            /\ Run(plan, nOk)
            /\ modules' = IF nOk = 1
                          THEN Append(modules, [id |-> row.id, name |-> row.name,
                                                position |-> row.position, lessons |-> <<>>])
                          ELSE modules
            /\ lastOp' = Op("addModule", nOk = 1, id, 0)
    /\ captured' = NoCapture
    /\ UNCHANGED <<loading, active, deletes>>
    /\ DialogsUnchanged
    /\ TasksUnchanged

\* Variant: the loop runs from the last index down.
PositionWritesDescending(table, items) ==
    [i \in DOMAIN items |->
        Req("update", table, items[Len(items) + 1 - i].id,
            <<[position |-> Len(items) - i]>>)]

\* updateModulePositions / updateLessonPositions: one update per index, in order
PositionWrites(table, items) ==
    [i \in DOMAIN items |->
        Req("update", table, items[i].id, <<[position |-> i - 1]>>)]

DeleteModule ==
    /\ NoDialog
    /\ deletes < MaxDeletes
    /\ \E i \in DOMAIN modules :
        LET moduleId == modules[i].id
            plan == <<Req("delete", "modules", moduleId, <<>>)>>
        IN  \E nOk \in Outcomes(plan) :
            /\ Run(plan, nOk)
            /\ modules' = IF nOk = 1
                          THEN SelectSeq(modules, LAMBDA m : m.id # moduleId)
                          ELSE modules
            /\ lastOp' = Op("deleteModule", nOk = 1, moduleId, 0)
    /\ deletes' = deletes + 1
    /\ captured' = NoCapture
    /\ UNCHANGED <<loading, active>>
    /\ DialogsUnchanged
    /\ TasksUnchanged

\* The user picks up a module card or, in an open card, a lesson (DndContext
\* keeps the dragged id until the drop).
DragStart(types) ==
    /\ Idle
    /\ \E i \in DOMAIN modules :
        \/ /\ "module" \in types
           /\ active' = [type |-> "module", id |-> modules[i].id, card |-> 0]
        \/ /\ "lesson" \in types
           /\ \E j \in DOMAIN modules[i].lessons :
                 active' = [type |-> "lesson", id |-> modules[i].lessons[j].id,
                            card |-> modules[i].id]
    /\ lastOp' = Op("dragStart", TRUE, active'.id, 0)
    /\ NoRequest
    /\ UNCHANGED <<modules, loading, captured, deletes>>
    /\ DialogsUnchanged
    /\ TasksUnchanged

\* Variant: only a drop on no target returns early.
NoDropOnNothing(activeId, over) == over = 0

\* if (!over || active.id === over.id) return;
NoDrop(activeId, over) == over = 0 \/ activeId = over

\* Variant: the prefixes of the two ids are not looked at.
AnyPrefix(prefix, activeType, overType) == TRUE

\* activeId.startsWith(prefix) && overId.startsWith(prefix)
BothStartWith(prefix, activeType, overType) == activeType = prefix /\ overType = prefix

\* The ids a drop event can name as over: none (0), a module card, a lesson.
OverIds(overType) ==
    IF overType = "module" THEN {m.id : m \in Range(modules)}
    ELSE IF overType = "lesson" THEN {l.id : l \in LocalLessons}
    ELSE {0}

\* The handler that ran last and its outcome, for a drop: a, b are the ids of
\* active and over without their prefix, target the prefix of over.
DropOp(name, ok, a, b, target) ==
    [op |-> name, ok |-> ok, a |-> a, b |-> b, target |-> target]

\* Variant: the list goes back to the old order when a position write fails.
HandleDragEndRevert(targets) ==
    /\ ~loading
    /\ active.type = "module"
    /\ \E overType \in {"none"} \cup targets :
       \E over \in OverIds(overType) :
        IF overType \in {"none", "module"} /\ NoDrop(active.id, over)
        THEN /\ UNCHANGED modules
             /\ NoRequest
             /\ lastOp' = DropOp("handleDragEnd", TRUE, active.id, over, overType)
        ELSE IF ~BothStartWith("module", active.type, overType)
        THEN /\ UNCHANGED modules
             /\ NoRequest
             /\ lastOp' = DropOp("handleDragEnd", TRUE, active.id, over, overType)
        ELSE LET oldIndex == FindIndex(modules, active.id)
                 newIndex == IF overType = "module" THEN FindIndex(modules, over) ELSE -1
                 newModules == ArrayMove(modules, oldIndex, newIndex)
                 plan == PositionWrites("modules", newModules)
             IN  \E nOk \in Outcomes(plan) :
                    /\ modules' = IF nOk = Len(plan) THEN newModules ELSE modules
                    /\ Run(plan, nOk)
                    /\ lastOp' = DropOp("handleDragEnd", nOk = Len(plan), active.id, over,
                                        overType)
    /\ active' = NoDrag
    /\ captured' = NoCapture
    /\ UNCHANGED <<loading, deletes>>
    /\ DialogsUnchanged
    /\ TasksUnchanged

\* handleDragEnd of CourseManager; over = 0 is a drop on no target.  The module
\* cards are the sortable items of this DndContext; targets are the prefixes
\* the over id of the event may carry.  Ids of different prefixes are never
\* equal, and no module matches the id of a lesson.
HandleDragEnd(targets) ==
    /\ ~loading
    /\ active.type = "module"
    /\ \E overType \in {"none"} \cup targets :
       \E over \in OverIds(overType) :
        IF overType \in {"none", "module"} /\ NoDrop(active.id, over)
        THEN /\ UNCHANGED modules
             /\ NoRequest
             /\ lastOp' = DropOp("handleDragEnd", TRUE, active.id, over, overType)
        ELSE IF ~BothStartWith("module", active.type, overType)
        THEN /\ UNCHANGED modules
             /\ NoRequest
             /\ lastOp' = DropOp("handleDragEnd", TRUE, active.id, over, overType)
        ELSE LET oldIndex == FindIndex(modules, active.id)
                 newIndex == IF overType = "module" THEN FindIndex(modules, over) ELSE -1
                 newModules == ArrayMove(modules, oldIndex, newIndex)
                 plan == PositionWrites("modules", newModules)
             IN  \E nOk \in Outcomes(plan) :
                    /\ modules' = newModules
                    /\ Run(plan, nOk)
                    /\ lastOp' = DropOp("handleDragEnd", nOk = Len(plan), active.id, over,
                                        overType)
    /\ active' = NoDrag
    /\ captured' = NoCapture
    /\ UNCHANGED <<loading, deletes>>
    /\ DialogsUnchanged
    /\ TasksUnchanged

\* ------------------------------------------------------------ ModuleCard
\* onUpdate(module.id, updatedModule) = CourseManager.updateModule
UpdateModule(moduleId, updatedModule) ==
    modules' = [k \in DOMAIN modules |->
                    IF modules[k].id = moduleId THEN updatedModule ELSE modules[k]]

AddLesson(inputs) ==
    /\ Idle
    /\ Cardinality(LocalLessons) < MaxLessons
    /\ \E i \in DOMAIN modules, in \in inputs :
        LET module == modules[i]
            id == FreshIds(1, UsedLessonIds)[1]
            row == [id |-> id, module_id |-> module.id, title |-> in.title,
                    video_iframe |-> in.video_iframe, position |-> Len(module.lessons)]
            plan == <<Req("insert", "lessons", id, <<row>>)>>
            \* module_id REFERENCES modules(id): the insert fails for a module
            \* that is not in the store
            fk == \E m \in dbModules : m.id = module.id
        IN  \E nOk \in (IF fk THEN Outcomes(plan) ELSE {0}) :
            /\ dbLessons' = IF nOk = 1 THEN dbLessons \cup {row} ELSE dbLessons
            /\ faults' = IF fk /\ nOk = 0 THEN faults - 1 ELSE faults
            /\ reqs' = plan
            /\ IF nOk = 1
               THEN UpdateModule(module.id, [module EXCEPT !.lessons = Append(@, row)])
               ELSE modules' = modules
            /\ lastOp' = Op("addLesson", nOk = 1, id, module.id)
    /\ captured' = NoCapture
    /\ UNCHANGED <<dbModules, loading, active, deletes>>
    /\ DialogsUnchanged
    /\ TasksUnchanged

DeleteLesson ==
    /\ NoDialog
    /\ deletes < MaxDeletes
    /\ \E i \in DOMAIN modules :
        \E j \in DOMAIN modules[i].lessons :
        LET module == modules[i]
            lessonId == module.lessons[j].id
            plan == <<Req("delete", "lessons", lessonId, <<>>)>>
        IN  \E nOk \in Outcomes(plan) :
            /\ Run(plan, nOk)
            /\ IF nOk = 1
               THEN UpdateModule(module.id,
                        [module EXCEPT !.lessons = SelectSeq(@, LAMBDA l : l.id # lessonId)])
               ELSE modules' = modules
            /\ lastOp' = Op("deleteLesson", nOk = 1, lessonId, module.id)
    /\ deletes' = deletes + 1
    /\ captured' = NoCapture
    /\ UNCHANGED <<loading, active>>
    /\ DialogsUnchanged
    /\ TasksUnchanged

\* handleLessonDragEnd of the card that holds the dragged lesson; a lesson that
\* is over belongs to the same card.
HandleLessonDragEnd(targets) ==
    /\ ~loading
    /\ active.type = "lesson"
    /\ \E i \in DOMAIN modules :
        LET module == modules[i] IN
        /\ module.id = active.card
        /\ \E overType \in {"none"} \cup targets :
           \E over \in (IF overType = "lesson"
                        THEN {l.id : l \in Range(module.lessons)}
                        ELSE OverIds(overType)) :
            IF overType \in {"none", "lesson"} /\ NoDrop(active.id, over)
            THEN /\ UNCHANGED modules
                 /\ NoRequest
                 /\ lastOp' = DropOp("handleLessonDragEnd", TRUE, active.id, over,
                                     overType)
            ELSE IF ~BothStartWith("lesson", active.type, overType)
            THEN /\ UNCHANGED modules
                 /\ NoRequest
                 /\ lastOp' = DropOp("handleLessonDragEnd", TRUE, active.id, over,
                                     overType)
            ELSE LET oldIndex == FindIndex(module.lessons, active.id)
                     newIndex == IF overType = "lesson"
                                 THEN FindIndex(module.lessons, over) ELSE -1
                     newLessons == ArrayMove(module.lessons, oldIndex, newIndex)
                     plan == PositionWrites("lessons", newLessons)
                 IN  \E nOk \in Outcomes(plan) :
                        /\ UpdateModule(module.id, [module EXCEPT !.lessons = newLessons])
                        /\ Run(plan, nOk)
                        /\ lastOp' = DropOp("handleLessonDragEnd", nOk = Len(plan),
                                            active.id, over, overType)
    /\ active' = NoDrag
    /\ captured' = NoCapture
    /\ UNCHANGED <<loading, deletes>>
    /\ DialogsUnchanged
    /\ TasksUnchanged

\* The card of the dragged lesson was deleted: its DndContext is unmounted and
\* no handler runs at the drop.
DragAbandoned ==
    /\ ~loading
    /\ active.type = "lesson"
    /\ \A m \in Range(modules) : m.id # active.card
    /\ active' = NoDrag
    /\ lastOp' = Op("dragAbandoned", TRUE, active.id, 0)
    /\ NoRequest
    /\ UNCHANGED <<modules, loading, captured, deletes>>
    /\ DialogsUnchanged
    /\ TasksUnchanged

\* ------------------------------------------------------- SnapshotManager
\* The hierarchy without identities: what a fetch can return, ids stripped.
StripLesson(l) == [title |-> l.title, video_iframe |-> l.video_iframe, position |-> l.position]

StripModule(m) ==
    [name |-> m.name, position |-> m.position,
     lessons |-> [k \in DOMAIN m.lessons |-> StripLesson(m.lessons[k])]]

Content(ms, ls) ==
    {[k \in DOMAIN r |-> StripModule(r[k])] : r \in FetchResults(ms, ls)}

\* snapshotData of createSnapshot: the modules prop, identities dropped
SnapshotData(ms) == [modules |-> [k \in DOMAIN ms |-> StripModule(ms[k])]]

\* Opening the dialog runs fetchSnapshots (order by created_at descending).
OpenSnapshots ==
    /\ Idle
    /\ snapOpen' = TRUE
    /\ \E ok \in {TRUE} \cup {faults = 0} :
        /\ snapshots' = IF ok THEN dbSnapshots ELSE snapshots
        /\ faults' = IF ok THEN faults ELSE faults - 1
        /\ lastOp' = Op("fetchSnapshots", ok, 0, 0)
    /\ reqs' = <<Req("select", "snapshots", 0, <<>>)>>
    /\ UNCHANGED <<dbModules, dbLessons, dbSnapshots, modules, loading, active, importOpen,
                   jsonInput, previewData, importError, deletes, pastes, captured>>
    /\ TasksUnchanged

\* onOpenChange(false)
CloseSnapshots ==
    /\ ~loading
    /\ snapOpen
    /\ snapOpen' = FALSE
    /\ lastOp' = Op("closeSnapshots", TRUE, 0, 0)
    /\ NoRequest
    /\ UNCHANGED <<dbSnapshots, modules, loading, active, snapshots, importOpen, jsonInput,
                   previewData, importError, deletes, pastes, captured>>
    /\ TasksUnchanged

\* Variant: a snapshot takes the place of the stored snapshots of its name.
CreateSnapshotByName(max) ==
    /\ ~loading
    /\ snapOpen
    /\ Len(dbSnapshots) < max
    /\ \E newSnapshotName \in SnapshotNames, ok \in {TRUE} \cup {faults = 0} :
        LET id == FreshIds(1, UsedSnapshotIds)[1]
            row == [id |-> id, name |-> newSnapshotName, data |-> SnapshotData(modules)]
        IN  /\ reqs' = <<Req("insert", "snapshots", id, <<row>>)>>
            /\ dbSnapshots' = IF ok
                              THEN <<row>> \o SelectSeq(dbSnapshots,
                                            LAMBDA o : o.name # newSnapshotName)
                              ELSE dbSnapshots
            /\ snapshots' = IF ok THEN <<row>> \o snapshots ELSE snapshots
            /\ faults' = IF ok THEN faults ELSE faults - 1
            /\ lastOp' = Op("createSnapshot", ok, id, 0)
            /\ captured' = IF ok
                           THEN [kind |-> "snapshot", id |-> id, done |-> FALSE,
                                 content |-> Content(dbModules, dbLessons)]
                           ELSE NoCapture
    /\ UNCHANGED <<dbModules, dbLessons, modules, loading, active, snapOpen, importOpen,
                   jsonInput, previewData, importError, deletes, pastes>>
    /\ TasksUnchanged

\* createSnapshot; at most max snapshots are kept
CreateSnapshot(max) ==
    /\ ~loading
    /\ snapOpen
    /\ Len(dbSnapshots) < max
    /\ \E newSnapshotName \in SnapshotNames, ok \in {TRUE} \cup {faults = 0} :
        LET id == FreshIds(1, UsedSnapshotIds)[1]
            row == [id |-> id, name |-> newSnapshotName, data |-> SnapshotData(modules)]
        IN  /\ reqs' = <<Req("insert", "snapshots", id, <<row>>)>>
            /\ dbSnapshots' = IF ok THEN <<row>> \o dbSnapshots ELSE dbSnapshots
            /\ snapshots' = IF ok THEN <<row>> \o snapshots ELSE snapshots
            /\ faults' = IF ok THEN faults ELSE faults - 1
            /\ lastOp' = Op("createSnapshot", ok, id, 0)
            /\ captured' = IF ok
                           THEN [kind |-> "snapshot", id |-> id, done |-> FALSE,
                                 content |-> Content(dbModules, dbLessons)]
                           ELSE NoCapture
    /\ UNCHANGED <<dbModules, dbLessons, modules, loading, active, snapOpen, importOpen,
                   jsonInput, previewData, importError, deletes, pastes>>
    /\ TasksUnchanged

\* The inserts of restoreSnapshot, module by module: the module row, then (if it
\* has any) its lessons in one request.
RECURSIVE RestoreInserts(_, _, _)
RestoreInserts(snapshotModules, usedM, usedL) ==
    IF snapshotModules = <<>> THEN <<>>
    ELSE LET moduleData == Head(snapshotModules)
             newId == FreshIds(1, usedM)[1]
             newModule == [id |-> newId, name |-> moduleData.name,
                           position |-> moduleData.position]
             ids == FreshIds(Len(moduleData.lessons), usedL)
             lessons == [k \in DOMAIN moduleData.lessons |->
                            [id |-> ids[k], module_id |-> newId,
                             title |-> moduleData.lessons[k].title,
                             video_iframe |-> moduleData.lessons[k].video_iframe,
                             position |-> moduleData.lessons[k].position]]
         IN  <<Req("insert", "modules", newId, <<newModule>>)>>
             \o (IF Len(moduleData.lessons) > 0
                 THEN <<Req("insert", "lessons", 0, lessons)>> ELSE <<>>)
             \o RestoreInserts(Tail(snapshotModules), usedM \cup {newId},
                               usedL \cup Range(ids))

\* Variant: .eq('id', ...) in place of .neq: only the sentinel row is deleted.
DeleteSentinel == Req("delete", "modules", 0, <<>>)

DeleteAll == Req("deleteAll", "modules", 0, <<>>)

\* Variant: the list is fetched again after a bulk replace that failed, too.
ReplacedAlways(ok) == loading' = TRUE /\ Unmounted

\* The tail of a bulk replace: on success onRestore() / onImport() = fetchModules
\* sets loading; the catch block only shows a toast.
Replaced(ok) ==
    IF ok
    THEN loading' = TRUE /\ Unmounted
    ELSE UNCHANGED <<loading, active, snapOpen, snapshots, importOpen, jsonInput,
                     previewData, importError>>

RestoreSnapshot ==
    /\ ~loading
    /\ snapOpen
    /\ \E k \in DOMAIN snapshots :
        LET snapshot == snapshots[k]
            plan == <<DeleteAll>>
                    \o RestoreInserts(snapshot.data.modules, UsedModuleIds, UsedLessonIds)
        IN  \E nOk \in Outcomes(plan) :
            /\ Run(plan, nOk)
            /\ Replaced(nOk = Len(plan))
            /\ lastOp' = Op("restoreSnapshot", nOk = Len(plan), snapshot.id, 0)
            /\ captured' = IF captured.kind = "snapshot" /\ captured.id = snapshot.id
                              /\ nOk = Len(plan)
                           THEN [captured EXCEPT !.done = TRUE] ELSE NoCapture
    /\ UNCHANGED <<dbSnapshots, modules, deletes, pastes>>
    /\ TasksUnchanged

DeleteSnapshot ==
    /\ ~loading
    /\ snapOpen
    /\ deletes < MaxDeletes
    /\ \E k \in DOMAIN snapshots, ok \in {TRUE} \cup {faults = 0} :
        LET snapshotId == snapshots[k].id IN
        /\ reqs' = <<Req("delete", "snapshots", snapshotId, <<>>)>>
        /\ dbSnapshots' = IF ok THEN SelectSeq(dbSnapshots, LAMBDA o : o.id # snapshotId)
                          ELSE dbSnapshots
        /\ snapshots' = IF ok THEN SelectSeq(snapshots, LAMBDA o : o.id # snapshotId)
                        ELSE snapshots
        /\ faults' = IF ok THEN faults ELSE faults - 1
        /\ lastOp' = Op("deleteSnapshot", ok, snapshotId, 0)
        /\ captured' = IF ok /\ captured.kind = "snapshot" /\ captured.id = snapshotId
                       THEN NoCapture ELSE captured
    /\ deletes' = deletes + 1
    /\ UNCHANGED <<dbModules, dbLessons, modules, loading, active, snapOpen, importOpen,
                   jsonInput, previewData, importError, pastes>>
    /\ TasksUnchanged

\* ---------------------------------------------------------- ImportDialog
\* A pasted text is blank, not JSON ("garbage"), or the text of a JSON value:
\* an array of elements or something else.  An element is null or an object
\* whose properties module, title, videoIframe are a string or missing / null
\* (url is never read).
JsonArray(items) == [kind |-> "json", isArray |-> TRUE, items |-> items]
JsonObject == [kind |-> "json", isArray |-> FALSE, items |-> <<>>]
Garbage == [kind |-> "garbage", isArray |-> FALSE, items |-> <<>>]

Item(module, title, videoIframe) ==
    [isObject |-> TRUE, module |-> module, title |-> title, videoIframe |-> videoIframe]
NullItem == [isObject |-> FALSE, module |-> Undef, title |-> Undef, videoIframe |-> Undef]

\* exportData: one record per lesson, modules and lessons in list order
RECURSIVE ExportData(_)
ExportData(ms) ==
    IF ms = <<>> THEN <<>>
    ELSE LET module == Head(ms)
         IN  [k \in DOMAIN module.lessons |->
                [module |-> module.name, title |-> module.lessons[k].title,
                 videoIframe |-> module.lessons[k].video_iframe]]
             \o ExportData(Tail(ms))

\* JSON.stringify(exportData, null, 2): the text of the array of the records
JsonStringify(records) ==
    JsonArray([k \in DOMAIN records |->
        Item(Str(records[k].module), Str(records[k].title), Str(records[k].videoIframe))])

OpenImport ==
    /\ Idle
    /\ importOpen' = TRUE
    /\ lastOp' = Op("openImport", TRUE, 0, 0)
    /\ NoRequest
    /\ UNCHANGED <<dbSnapshots, modules, loading, active, snapOpen, snapshots, jsonInput,
                   previewData, importError, deletes, pastes, captured>>
    /\ TasksUnchanged

\* onOpenChange(false) calls reset()
CloseImport ==
    /\ ~loading
    /\ importOpen
    /\ importOpen' = FALSE
    /\ jsonInput' = NoText
    /\ previewData' = NoPreview
    /\ importError' = FALSE
    /\ lastOp' = Op("closeImport", TRUE, 0, 0)
    /\ NoRequest
    /\ captured' = NoCapture
    /\ UNCHANGED <<dbSnapshots, modules, loading, active, snapOpen, snapshots, deletes,
                   pastes>>
    /\ TasksUnchanged

\* onChange of the textarea
SetJsonInput(texts) ==
    /\ ~loading
    /\ importOpen
    /\ pastes < MaxPastes
    /\ \E text \in texts : jsonInput' = text
    /\ pastes' = pastes + 1
    /\ lastOp' = Op("setJsonInput", TRUE, 0, 0)
    /\ NoRequest
    /\ captured' = NoCapture
    /\ UNCHANGED <<dbSnapshots, modules, loading, active, snapOpen, snapshots, importOpen,
                   previewData, importError, deletes>>
    /\ TasksUnchanged

\* The text of Export JSON (exportData of CourseManager, taken before the
\* dialog was opened) is pasted into the textarea.
PasteExport ==
    /\ ~loading
    /\ importOpen
    /\ pastes < MaxPastes
    /\ jsonInput' = JsonStringify(ExportData(modules))
    /\ pastes' = pastes + 1
    /\ lastOp' = Op("exportData", TRUE, 0, 0)
    /\ NoRequest
    /\ captured' = [kind |-> "export", id |-> 0, done |-> FALSE,
                    content |-> ExportData(modules)]
    /\ UNCHANGED <<dbSnapshots, modules, loading, active, snapOpen, snapshots, importOpen,
                   previewData, importError, deletes>>
    /\ TasksUnchanged

\* The checks of validateAndPreview after the blank test: JSON.parse throws on
\* garbage, item.module throws on a null element (both end in the catch block),
\* a non-array and an element with a falsy module or title set the error.
Rejected(text) ==
    \/ text.kind # "json"
    \/ ~text.isArray
    \/ \E k \in DOMAIN text.items :
          \/ ~text.items[k].isObject
          \/ ~Truthy(text.items[k].module)
          \/ ~Truthy(text.items[k].title)

ValidateAndPreview ==
    /\ ~loading
    /\ importOpen
    /\ IF jsonInput.kind = "blank" \/ Rejected(jsonInput)
       THEN previewData' = NoPreview /\ importError' = TRUE
       ELSE previewData' = [set |-> TRUE, items |-> jsonInput.items] /\ importError' = FALSE
    /\ lastOp' = Op("validateAndPreview", ~importError', 0, 0)
    /\ NoRequest
    /\ UNCHANGED <<dbSnapshots, modules, loading, active, snapOpen, snapshots, importOpen,
                   jsonInput, deletes, pastes, captured>>
    /\ TasksUnchanged

\* Variant: a module seen for the first time goes to the front of the map.
RECURSIVE GroupByModuleNewestFirst(_, _)
GroupByModuleNewestFirst(items, moduleMap) ==
    IF items = <<>> THEN moduleMap
    ELSE LET item == Head(items)
             has == \E k \in DOMAIN moduleMap : moduleMap[k].name = item.module[1]
             m1 == IF has THEN moduleMap
                   ELSE <<[name |-> item.module[1], lessons |-> <<>>]>> \o moduleMap
             m2 == [k \in DOMAIN m1 |->
                      IF m1[k].name = item.module[1]
                      THEN [m1[k] EXCEPT !.lessons = Append(@, item)] ELSE m1[k]]
         IN  GroupByModuleNewestFirst(Tail(items), m2)

\* moduleMap of processImport: a Map keeps its keys in insertion order
RECURSIVE GroupByModule(_, _)
GroupByModule(items, moduleMap) ==
    IF items = <<>> THEN moduleMap
    ELSE LET item == Head(items)
             has == \E k \in DOMAIN moduleMap : moduleMap[k].name = item.module[1]
             m1 == IF has THEN moduleMap
                   ELSE Append(moduleMap, [name |-> item.module[1], lessons |-> <<>>])
             m2 == [k \in DOMAIN m1 |->
                      IF m1[k].name = item.module[1]
                      THEN [m1[k] EXCEPT !.lessons = Append(@, item)] ELSE m1[k]]
         IN  GroupByModule(Tail(items), m2)

\* The inserts of processImport over the entries of moduleMap
RECURSIVE ImportInserts(_, _, _, _)
ImportInserts(entries, modulePosition, usedM, usedL) ==
    IF entries = <<>> THEN <<>>
    ELSE LET moduleName == Head(entries).name
             lessons == Head(entries).lessons
             newId == FreshIds(1, usedM)[1]
             newModule == [id |-> newId, name |-> moduleName, position |-> modulePosition]
             ids == FreshIds(Len(lessons), usedL)
             lessonsToInsert == [k \in DOMAIN lessons |->
                                    [id |-> ids[k], module_id |-> newId,
                                     title |-> lessons[k].title[1],
                                     video_iframe |-> OrEmpty(lessons[k].videoIframe),
                                     position |-> k - 1]]
         IN  <<Req("insert", "modules", newId, <<newModule>>),
               Req("insert", "lessons", 0, lessonsToInsert)>>
             \o ImportInserts(Tail(entries), modulePosition + 1, usedM \cup {newId},
                              usedL \cup Range(ids))

ProcessImport ==
    /\ ~loading
    /\ importOpen
    /\ IF ~previewData.set
       THEN /\ NoRequest
            /\ lastOp' = Op("processImport", FALSE, 0, 0)
            /\ UNCHANGED <<loading, active, snapOpen, snapshots, importOpen, jsonInput,
                           previewData, importError, captured>>
       ELSE LET plan == <<DeleteAll>>
                        \o ImportInserts(GroupByModule(previewData.items, <<>>), 0,
                                         UsedModuleIds, UsedLessonIds)
            IN  \E nOk \in Outcomes(plan) :
                /\ Run(plan, nOk)
                /\ Replaced(nOk = Len(plan))
                /\ lastOp' = Op("processImport", nOk = Len(plan), 0, 0)
                /\ captured' = IF captured.kind = "export" /\ nOk = Len(plan)
                               THEN [captured EXCEPT !.done = TRUE] ELSE NoCapture
    /\ UNCHANGED <<dbSnapshots, modules, deletes, pastes>>
    /\ TasksUnchanged

\* ------------------------------------------------------------ courses-api
\* SQL NULL in the nullable column lessons.video_iframe, and JSON null.
Null == "NULL"

\* Variant: the stored markup is passed on as it is.
FeedVideoRaw(x) == x

\* lesson.video_iframe || ""
FeedVideo(x) == IF x = Null \/ x = "" THEN "" ELSE x

\* transformedData: one record per lesson of every module that has lessons
RECURSIVE Transform(_)
Transform(data) ==
    IF data = <<>> THEN <<>>
    ELSE LET module == Head(data)
         IN  [k \in DOMAIN module.lessons |->
                [module |-> module.name, title |-> module.lessons[k].title,
                 videoIframe |-> FeedVideo(module.lessons[k].video_iframe),
                 url |-> Null]]
             \o Transform(Tail(data))

\* Variant: a failed query is answered like an empty store.
RespondEmpty(failed, data) ==
    [status |-> 200, body |-> [kind |-> "array", items |-> IF failed THEN <<>> ELSE Transform(data)]]

\* The response of the handler: the array with status 200 (the default), or from
\* the catch block status 500 with {error, message}.
Respond(failed, data) ==
    IF failed
    THEN [status |-> 500,
          body |-> [kind |-> "object", error |-> "Internal server error",
                    message |-> "query failed"]]
    ELSE [status |-> 200, body |-> [kind |-> "array", items |-> Transform(data)]]

\* One request to the endpoint; it runs on the server whatever the session does.
\* A preflight (OPTIONS) is answered without a query.
ServeFeed ==
    /\ \E method \in {"GET", "OPTIONS"} :
        IF method = "OPTIONS"
        THEN /\ lastOp' = Op("preflight", TRUE, 200, [kind |-> "null"])
             /\ NoRequest
        ELSE /\ reqs' = <<Req("select", "modules", 0, <<>>)>>
             /\ \E failed \in {FALSE} \cup {faults > 0} :
                 /\ faults' = IF failed THEN faults - 1 ELSE faults
                 /\ \E data \in FetchResults(dbModules, dbLessons) :
                      LET response == Respond(failed, data)
                      IN  lastOp' = Op("serve", ~failed, response.status, response.body)
             /\ UNCHANGED <<dbModules, dbLessons>>
    /\ UNCHANGED <<modules, loading, active, captured, deletes>>
    /\ DialogsUnchanged
    /\ TasksUnchanged

\* ------------------------------------------------ handlers, await by await
\* A handler runs up to its first await when it is called, and from one await
\* to the next when the store answers.  After an await it still reads the
\* modules and the module prop of the render it was created in.
Awaiting == {k \in 1..MaxTasks : tasks[k].op # "none"}

HasFree == Awaiting # 1..MaxTasks

Free == CHOOSE k \in 1..MaxTasks :
            tasks[k].op = "none" /\ \A j \in 1..(k - 1) : tasks[j].op # "none"

Task(op, mods, card, arg, todo) ==
    [op |-> op, mods |-> mods, card |-> card, arg |-> arg, todo |-> todo, data |-> <<>>]

\* Ids that a closure or the other session still holds are not generated again.
ClosureModules ==
    UNION {Range(tasks[k].mods) : k \in 1..MaxTasks} \cup Range(peer.modules)

PoolModuleIds == UsedModuleIds \cup {m.id : m \in ClosureModules}

PoolLessonIds ==
    UsedLessonIds \cup {l.id : l \in UNION {Range(m.lessons) : m \in ClosureModules}}

\* The call of a handler that issues its first request and awaits the answer.
Call(name, task) ==
    /\ tasks' = [tasks EXCEPT ![Free] = task]
    /\ reqs' = <<Head(task.todo)>>
    /\ lastOp' = Op(name, TRUE, Free, 0)
    /\ UNCHANGED <<dbModules, dbLessons, faults, peer, captured>>

\* The answer to the request of handler k: the handler goes on as next, or has
\* returned (NoTask); it issues the first request of next.
Settled(k, ok, next) ==
    /\ tasks' = [tasks EXCEPT ![k] = next]
    /\ reqs' = IF next.op = "none" THEN <<>> ELSE <<Head(next.todo)>>
    /\ faults' = IF ok THEN faults ELSE faults - 1
    /\ lastOp' = Op(tasks[k].op, ok, k, IF next.op = "none" THEN 1 ELSE 0)
    /\ UNCHANGED <<peer, captured>>

Answers == {TRUE} \cup {faults = 0}

\* addModule up to  await supabase.from('modules').insert(...)
AddModuleCall(names) ==
    /\ Idle
    /\ HasFree
    /\ Len(modules) < MaxOverlap
    /\ Cardinality(dbModules) < MaxOverlap
    /\ \E newModuleName \in names :
        Call("addModule:call",
             Task("addModule", modules, 0, <<newModuleName>>,
                  <<Req("insert", "modules", 0,
                        <<[id |-> 0, name |-> newModuleName,
                           position |-> Len(modules)]>>)>>))
    /\ UNCHANGED <<modules, loading, active, deletes>>
    /\ DialogsUnchanged

\* addModule from the answer on: setModules([...modules, {...data, lessons: []}])
AddModuleAnswer ==
    /\ \E k \in Awaiting, ok \in Answers :
        /\ tasks[k].op = "addModule"
        /\ LET id == FreshIds(1, PoolModuleIds)[1]
               data == [Head(tasks[k].todo).rows[1] EXCEPT !.id = id]
           IN  /\ dbModules' = IF ok THEN dbModules \cup {data} ELSE dbModules
               /\ modules' = IF ok
                             THEN Append(tasks[k].mods,
                                         [id |-> data.id, name |-> data.name,
                                          position |-> data.position, lessons |-> <<>>])
                             ELSE modules
        /\ Settled(k, ok, NoTask)
    /\ UNCHANGED <<dbLessons, loading, active, deletes>>
    /\ DialogsUnchanged

\* deleteModule up to  await supabase.from('modules').delete().eq('id', moduleId)
DeleteModuleCall ==
    /\ NoDialog
    /\ HasFree
    /\ deletes < MaxDeletes
    /\ \E i \in DOMAIN modules :
        Call("deleteModule:call",
             Task("deleteModule", modules, 0, <<modules[i].id>>,
                  <<Req("delete", "modules", modules[i].id, <<>>)>>))
    /\ deletes' = deletes + 1
    /\ UNCHANGED <<modules, loading, active>>
    /\ DialogsUnchanged

\* deleteModule from the answer on: setModules(modules.filter(m => m.id !== moduleId))
DeleteModuleAnswer ==
    /\ \E k \in Awaiting, ok \in Answers :
        /\ tasks[k].op = "deleteModule"
        /\ LET moduleId == tasks[k].arg[1]
               db == IF ok THEN DbApply(Db, Head(tasks[k].todo)) ELSE Db
           IN  /\ dbModules' = db.modules
               /\ dbLessons' = db.lessons
               /\ modules' = IF ok
                             THEN SelectSeq(tasks[k].mods, LAMBDA m : m.id # moduleId)
                             ELSE modules
        /\ Settled(k, ok, NoTask)
    /\ UNCHANGED <<loading, active, deletes>>
    /\ DialogsUnchanged

\* handleDragEnd for a module card up to the first await of updateModulePositions
HandleDragEndCall ==
    /\ ~loading
    /\ active.type = "module"
    /\ HasFree
    /\ \E over \in {0} \cup OverIds("module") :
        IF NoDrop(active.id, over)
        THEN /\ UNCHANGED <<modules, tasks, peer, captured>>
             /\ NoRequest
             /\ lastOp' = Op("handleDragEnd:call", TRUE, 0, 0)
        ELSE LET oldIndex == FindIndex(modules, active.id)
                 newIndex == FindIndex(modules, over)
                 newModules == ArrayMove(modules, oldIndex, newIndex)
             IN  /\ modules' = newModules
                 /\ Call("handleDragEnd:call",
                         Task("handleDragEnd", modules, 0, <<active.id, over>>,
                              PositionWrites("modules", newModules)))
    /\ active' = NoDrag
    /\ UNCHANGED <<loading, deletes>>
    /\ DialogsUnchanged

\* updateModulePositions from one answer to the next await: the loop goes on
\* with the next index, or ends after the last index or at an error
UpdateModulePositionsAnswer ==
    /\ \E k \in Awaiting, ok \in Answers :
        /\ tasks[k].op = "handleDragEnd"
        /\ LET db == IF ok THEN DbApply(Db, Head(tasks[k].todo)) ELSE Db
           IN  dbModules' = db.modules /\ dbLessons' = db.lessons
        /\ Settled(k, ok, IF ok /\ Len(tasks[k].todo) > 1
                          THEN [tasks[k] EXCEPT !.todo = Tail(@)]
                          ELSE NoTask)
    /\ UNCHANGED <<modules, loading, active, deletes>>
    /\ DialogsUnchanged

\* The module prop of the card: the module of that id in the render of the closure.
CardOf(t) == t.mods[FindIndex(t.mods, t.card) + 1]

\* addLesson up to  await supabase.from('lessons').insert(...)
AddLessonCall(inputs) ==
    /\ Idle
    /\ HasFree
    /\ Cardinality(LocalLessons) < MaxLessons
    /\ Cardinality(dbLessons) < MaxLessons
    /\ \E i \in DOMAIN modules, in \in inputs :
        Call("addLesson:call",
             Task("addLesson", modules, modules[i].id, <<in>>,
                  <<Req("insert", "lessons", 0,
                        <<[id |-> 0, module_id |-> modules[i].id, title |-> in.title,
                           video_iframe |-> in.video_iframe,
                           position |-> Len(modules[i].lessons)]>>)>>))
    /\ UNCHANGED <<modules, loading, active, deletes>>
    /\ DialogsUnchanged

\* addLesson from the answer on: onUpdate(module.id, {...module, lessons: [...module.lessons, data]})
\* with onUpdate = updateModule of the same render
AddLessonAnswer ==
    /\ \E k \in Awaiting :
        /\ tasks[k].op = "addLesson"
        /\ LET t == tasks[k]
               module == CardOf(t)
               id == FreshIds(1, PoolLessonIds)[1]
               data == [Head(t.todo).rows[1] EXCEPT !.id = id]
               \* module_id REFERENCES modules(id): the insert fails for a
               \* module that is not in the store
               fk == \E m \in dbModules : m.id = module.id
           IN  \E ok \in (IF fk THEN Answers ELSE {FALSE}) :
               /\ dbLessons' = IF ok THEN dbLessons \cup {data} ELSE dbLessons
               /\ modules' = IF ok
                             THEN [j \in DOMAIN t.mods |->
                                     IF t.mods[j].id = module.id
                                     THEN [module EXCEPT !.lessons = Append(@, data)]
                                     ELSE t.mods[j]]
                             ELSE modules
               /\ tasks' = [tasks EXCEPT ![k] = NoTask]
               /\ reqs' = <<>>
               /\ faults' = IF fk /\ ~ok THEN faults - 1 ELSE faults
               /\ lastOp' = Op("addLesson", ok, k, 1)
    /\ UNCHANGED <<dbModules, loading, active, deletes, peer, captured>>
    /\ DialogsUnchanged

\* The request that inserts the module moduleData of a snapshot.
ModuleInsert(moduleData) ==
    Req("insert", "modules", 0,
        <<[id |-> 0, name |-> moduleData.name, position |-> moduleData.position]>>)

\* restoreSnapshot up to  await supabase.from('modules').delete().neq(...)
\* The Restore button is enabled whenever the dialog shows it.
RestoreSnapshotCall ==
    /\ ~loading
    /\ snapOpen
    /\ HasFree
    /\ \E i \in DOMAIN snapshots :
        Call("restoreSnapshot:call",
             Task("restoreSnapshot", <<>>, 0, snapshots[i].data.modules, <<DeleteAll>>))
    /\ UNCHANGED <<modules, loading, active, deletes>>
    /\ DialogsUnchanged

\* restoreSnapshot after the answer r of the store, when the modules rest are
\* still to be inserted: the handler awaits the insert of the next module, or
\* has gone through the loop.
RestoreRest(t, rest) ==
    IF rest = <<>> THEN NoTask
    ELSE [t EXCEPT !.arg = rest, !.todo = <<ModuleInsert(Head(rest))>>, !.data = <<>>]

\* restoreSnapshot from one answer to the next await.  A failed request ends
\* the handler in its catch block; after the last insert onRestore() =
\* fetchModules sets loading, and the dialog is closed.
RestoreSnapshotAnswer ==
    /\ \E k \in Awaiting :
        /\ tasks[k].op = "restoreSnapshot"
        /\ LET t == tasks[k]
               r == Head(t.todo)
               moduleData == Head(t.arg)
               newId == FreshIds(1, PoolModuleIds)[1]
               newModule == [r.rows[1] EXCEPT !.id = newId]
               ids == FreshIds(Len(r.rows), PoolLessonIds)
               lessons == [j \in DOMAIN r.rows |-> [r.rows[j] EXCEPT !.id = ids[j]]]
               \* module_id REFERENCES modules(id)
               fk == r.table = "lessons" => \E m \in dbModules : m.id = t.data[1].id
           IN  \E ok \in (IF fk THEN Answers ELSE {FALSE}) :
               LET db == IF ~ok THEN Db
                         ELSE IF r.kind = "deleteAll" THEN DbApply(Db, r)
                         ELSE IF r.table = "modules"
                         THEN DbApply(Db, Req("insert", "modules", newId, <<newModule>>))
                         ELSE DbApply(Db, Req("insert", "lessons", 0, lessons))
                   next == IF ~ok THEN NoTask
                           ELSE IF r.kind = "deleteAll" THEN RestoreRest(t, t.arg)
                           ELSE IF r.table = "modules" /\ Len(moduleData.lessons) > 0
                           THEN [t EXCEPT
                                   !.data = <<newModule>>,
                                   !.todo = <<Req("insert", "lessons", 0,
                                       [j \in DOMAIN moduleData.lessons |->
                                          [id |-> 0, module_id |-> newId,
                                           title |-> moduleData.lessons[j].title,
                                           video_iframe |-> moduleData.lessons[j].video_iframe,
                                           position |-> moduleData.lessons[j].position]])>>]
                           ELSE RestoreRest(t, Tail(t.arg))
               IN  /\ dbModules' = db.modules
                   /\ dbLessons' = db.lessons
                   /\ tasks' = [tasks EXCEPT ![k] = next]
                   /\ reqs' = IF next.op = "none" THEN <<>> ELSE <<Head(next.todo)>>
                   /\ faults' = IF fk /\ ~ok THEN faults - 1 ELSE faults
                   /\ lastOp' = Op("restoreSnapshot", ok, k, IF next.op = "none" THEN 1 ELSE 0)
                   /\ Replaced(ok /\ next.op = "none")
    /\ UNCHANGED <<dbSnapshots, modules, deletes, pastes, peer, captured>>

\* ------------------------------------------------------ a second session
\* Another browser on the same store mounts CourseManager: fetchModules.
PeerFetchModules ==
    /\ peer.todo = <<>>
    /\ \E res \in FetchResults(dbModules, dbLessons) :
        peer' = [mounted |-> TRUE, modules |-> res, todo |-> <<>>]
    /\ lastOp' = Op("peer:fetchModules", TRUE, 0, 0)
    /\ NoRequest
    /\ UNCHANGED <<modules, loading, active, deletes, captured, tasks>>
    /\ DialogsUnchanged

\* handleDragEnd there, for one card dropped on another, up to the first await
PeerHandleDragEnd ==
    /\ peer.mounted
    /\ peer.todo = <<>>
    /\ \E i, j \in DOMAIN peer.modules :
        /\ i # j
        /\ LET newModules == ArrayMove(peer.modules, i - 1, j - 1)
           IN  /\ peer' = [peer EXCEPT !.modules = newModules,
                                       !.todo = PositionWrites("modules", newModules)]
               /\ reqs' = <<PositionWrites("modules", newModules)[1]>>
               /\ lastOp' = Op("peer:handleDragEnd", TRUE, peer.modules[i].id,
                               peer.modules[j].id)
    /\ UNCHANGED <<dbModules, dbLessons, faults, modules, loading, active, deletes,
                   captured, tasks>>
    /\ DialogsUnchanged

\* Variant: the store answers a pass only when no pass of the other session is
\* under way.
PeerAnswerInTurn ==
    /\ \A k \in Awaiting : tasks[k].op # "handleDragEnd"
    /\ peer.todo # <<>>
    /\ \E ok \in Answers :
        LET db == IF ok THEN DbApply(Db, Head(peer.todo)) ELSE Db IN
        /\ dbModules' = db.modules
        /\ dbLessons' = db.lessons
        /\ peer' = [peer EXCEPT !.todo = IF ok THEN Tail(@) ELSE <<>>]
        /\ reqs' = IF ok /\ Len(peer.todo) > 1 THEN <<peer.todo[2]>> ELSE <<>>
        /\ faults' = IF ok THEN faults ELSE faults - 1
        /\ lastOp' = Op("peer:updateModulePositions", ok, Head(peer.todo).id,
                        IF ok /\ Len(peer.todo) > 1 THEN 0 ELSE 1)
    /\ UNCHANGED <<modules, loading, active, deletes, captured, tasks>>
    /\ DialogsUnchanged

\* updateModulePositions there, from one answer to the next await
PeerUpdateModulePositionsAnswer ==
    /\ peer.todo # <<>>
    /\ \E ok \in Answers :
        LET db == IF ok THEN DbApply(Db, Head(peer.todo)) ELSE Db IN
        /\ dbModules' = db.modules
        /\ dbLessons' = db.lessons
        /\ peer' = [peer EXCEPT !.todo = IF ok THEN Tail(@) ELSE <<>>]
        /\ reqs' = IF ok /\ Len(peer.todo) > 1 THEN <<peer.todo[2]>> ELSE <<>>
        /\ faults' = IF ok THEN faults ELSE faults - 1
        /\ lastOp' = Op("peer:updateModulePositions", ok, Head(peer.todo).id,
                        IF ok /\ Len(peer.todo) > 1 THEN 0 ELSE 1)
    /\ UNCHANGED <<modules, loading, active, deletes, captured, tasks>>
    /\ DialogsUnchanged

\* ------------------------------------------------------- specifications
OneModule == {"M1"}
OneLesson == {[title |-> "L1", video_iframe |-> ""]}

\* Editing: add, delete and drag modules and lessons.
Next ==
    \/ FetchModules
    \/ AddModule(OneModule)
    \/ DeleteModule
    \/ DragStart({"module", "lesson"})
    \/ HandleDragEnd({"module"})
    \/ AddLesson(OneLesson)
    \/ DeleteLesson
    \/ HandleLessonDragEnd({"lesson"})
    \/ DragAbandoned

Spec == Init /\ [][Next]_vars

\* Snapshots of a list of named modules that was built and reordered.
NextSnapshot ==
    \/ FetchModules
    \/ AddModule(ModuleInputs)
    \/ DragStart({"module"})
    \/ HandleDragEnd({"module"})
    \/ OpenSnapshots
    \/ CloseSnapshots
    \/ CreateSnapshot(MaxSnapshots)
    \/ RestoreSnapshot

SpecSnapshot == Init /\ [][NextSnapshot]_vars

\* The hierarchies a bulk replace can be fed with: named modules with lessons,
\* built and reordered.
NextReplace ==
    \/ FetchModules
    \/ AddModule(ModuleInputs)
    \/ AddLesson(OneLesson)
    \/ DragStart({"module"})
    \/ HandleDragEnd({"module"})

SpecReplace == Init /\ [][NextReplace]_vars

\* Export of a hierarchy that was built by hand, and its import.
NextExport ==
    \/ FetchModules
    \/ AddModule(ModuleInputs)
    \/ AddLesson(LessonInputs)
    \/ OpenImport
    \/ CloseImport
    \/ PasteExport
    \/ ValidateAndPreview
    \/ ProcessImport

SpecExport == Init /\ [][NextExport]_vars

\* Import of any pasted text.
ItemDomain ==
    {Item(Str("M1"), Str("L1"), Undef), Item(Str("M2"), Str("L1"), Str("")),
     Item(Str("M1"), Str("L2"), Str("v")),
     Item(Str("M1"), Undef, Str("v")), Item(Str(""), Str("L1"), Undef), NullItem}

Texts ==
    {NoText, Garbage, JsonObject}
    \cup {JsonArray(items) : items \in UNION {[1..n -> ItemDomain] : n \in 0..MaxItems}}

NextImport ==
    \/ FetchModules
    \/ OpenImport
    \/ CloseImport
    \/ SetJsonInput(Texts)
    \/ ValidateAndPreview
    \/ ProcessImport

SpecImport == Init /\ [][NextImport]_vars

\* Bulk replace over a store that may fail: the hierarchy is built by imports,
\* captured, restored, and a module may be deleted.
BulkItems == {Item(Str("M1"), Str("L1"), Str("")), Item(Str("M2"), Str("L1"), Str("v"))}

BulkTexts ==
    {JsonArray(items) : items \in UNION {[1..n -> BulkItems] : n \in 0..MaxItems}}

NextBulk ==
    \/ FetchModules
    \/ OpenImport
    \/ CloseImport
    \/ SetJsonInput(BulkTexts)
    \/ ValidateAndPreview
    \/ ProcessImport
    \/ OpenSnapshots
    \/ CloseSnapshots
    \/ CreateSnapshot(MaxSnapshots)
    \/ RestoreSnapshot
    \/ DeleteModule

SpecBulk == InitFaulty /\ [][NextBulk]_vars

\* The endpoint over any store the schema allows: up to MaxFeedRows modules
\* and lessons, positions with gaps and ties, markup that is NULL.
MaxFeedRows == 2

FeedModuleRows ==
    LET opt == {<<>>} \cup {<<[name |-> n, position |-> p]>> :
                              n \in ModuleInputs, p \in 0..(MaxFeedRows - 1)}
    IN  {{[id |-> i, name |-> f[i][1].name, position |-> f[i][1].position] :
              i \in {j \in 1..MaxFeedRows : f[j] # <<>>}} :
            f \in [1..MaxFeedRows -> opt]}

FeedLessonRows(ms) ==
    LET opt == {<<>>} \cup {<<[module_id |-> m.id, video_iframe |-> v, position |-> p]>> :
                              m \in ms, v \in {Null, "", "v"}, p \in 0..(MaxFeedRows - 1)}
    IN  {{[id |-> i, module_id |-> f[i][1].module_id, title |-> "L1",
           video_iframe |-> f[i][1].video_iframe, position |-> f[i][1].position] :
              i \in {j \in 1..MaxFeedRows : f[j] # <<>>}} :
            f \in [1..MaxFeedRows -> opt]}

InitFeed ==
    /\ dbModules \in FeedModuleRows
    /\ dbLessons \in FeedLessonRows(dbModules)
    /\ dbSnapshots = <<>>
    /\ modules = <<>>
    /\ loading = TRUE
    /\ active = NoDrag
    /\ snapOpen = FALSE
    /\ snapshots = <<>>
    /\ importOpen = FALSE
    /\ jsonInput = NoText
    /\ previewData = NoPreview
    /\ importError = FALSE
    /\ faults \in 0..MaxFaults
    /\ deletes = 0
    /\ pastes = 0
    /\ lastOp = Op("mount", TRUE, 0, 0)
    /\ reqs = <<>>
    /\ captured = NoCapture
    /\ tasks = NoTasks
    /\ peer = NoPeer

NextFeed ==
    \/ ServeFeed
    \/ FetchModules

SpecFeed == InitFeed /\ [][NextFeed]_vars

\* Several snapshots of a list of modules that is edited between the captures;
\* snapshots are restored and deleted.
MaxArchive == 2

NextArchive ==
    \/ FetchModules
    \/ AddModule(OneModule)
    \/ DragStart({"module"})
    \/ HandleDragEnd({"module"})
    \/ OpenSnapshots
    \/ CloseSnapshots
    \/ CreateSnapshot(MaxArchive)
    \/ RestoreSnapshot
    \/ DeleteSnapshot

SpecArchive == Init /\ [][NextArchive]_vars

\* Editing over a store that may fail, with drops on targets of either prefix.
NextFaulty ==
    \/ FetchModules
    \/ AddModule(OneModule)
    \/ AddLesson(OneLesson)
    \/ DragStart({"module", "lesson"})
    \/ HandleDragEnd({"module", "lesson"})
    \/ HandleLessonDragEnd({"module", "lesson"})

SpecFaulty == InitFaulty /\ [][NextFaulty]_vars

\* Editing with handlers that overlap: a handler is called while another one
\* awaits the store.
NextAsync ==
    \/ FetchModules
    \/ AddModuleCall(OneModule)
    \/ AddModuleAnswer
    \/ DeleteModuleCall
    \/ DeleteModuleAnswer
    \/ DragStart({"module"})
    \/ HandleDragEndCall
    \/ UpdateModulePositionsAnswer

SpecAsync == Init /\ [][NextAsync]_vars

\* Modules and lessons added by handlers that overlap.
NextCards ==
    \/ FetchModules
    \/ AddModuleCall(OneModule)
    \/ AddModuleAnswer
    \/ AddLessonCall(OneLesson)
    \/ AddLessonAnswer

SpecCards == Init /\ [][NextCards]_vars

\* Snapshots of a list of modules, restored by handlers that overlap.
NextRestore ==
    \/ FetchModules
    \/ AddModuleCall(OneModule)
    \/ AddModuleAnswer
    \/ OpenSnapshots
    \/ CloseSnapshots
    \/ CreateSnapshot(MaxSnapshots)
    \/ RestoreSnapshotCall
    \/ RestoreSnapshotAnswer

SpecRestore == Init /\ [][NextRestore]_vars

\* The same over a store that may fail.
NextRecover ==
    \/ FetchModules
    \/ AddModuleCall(OneModule)
    \/ AddModuleAnswer
    \/ OpenSnapshots
    \/ CloseSnapshots
    \/ CreateSnapshot(MaxSnapshots)
    \/ RestoreSnapshotCall
    \/ RestoreSnapshotAnswer

SpecRecover == InitFaulty /\ [][NextRecover]_vars

\* Imports and reorders over a store that may fail.
NextOnce ==
    \/ FetchModules
    \/ OpenImport
    \/ CloseImport
    \/ SetJsonInput(BulkTexts)
    \/ ValidateAndPreview
    \/ ProcessImport
    \/ DragStart({"module", "lesson"})
    \/ HandleDragEnd({"module"})
    \/ HandleLessonDragEnd({"lesson"})

SpecOnce == InitFaulty /\ [][NextOnce]_vars

\* Two sessions reorder the modules of the same store, which holds the
\* MaxOverlap modules an earlier session has added.
InitRace ==
    /\ dbModules = {[id |-> i, name |-> "M1", position |-> i - 1] : i \in 1..MaxOverlap}
    /\ dbLessons = {}
    /\ dbSnapshots = <<>>
    /\ modules = <<>>
    /\ loading = TRUE
    /\ active = NoDrag
    /\ snapOpen = FALSE
    /\ snapshots = <<>>
    /\ importOpen = FALSE
    /\ jsonInput = NoText
    /\ previewData = NoPreview
    /\ importError = FALSE
    /\ faults = 0
    /\ deletes = 0
    /\ pastes = 0
    /\ lastOp = Op("mount", TRUE, 0, 0)
    /\ reqs = <<>>
    /\ captured = NoCapture
    /\ tasks = NoTasks
    /\ peer = NoPeer

NextRace ==
    \/ FetchModules
    \/ DragStart({"module"})
    \/ HandleDragEndCall
    \/ UpdateModulePositionsAnswer
    \/ PeerFetchModules
    \/ PeerHandleDragEnd
    \/ PeerUpdateModulePositionsAnswer

SpecRace == InitRace /\ [][NextRace]_vars

\* ------------------------------------------------------------ properties
Ids(s) == [i \in DOMAIN s |-> s[i].id]

\* The position values of the rows S are exactly 0..n-1, n the number of rows.
Dense(S) == {x.position : x \in S} = 0..(Cardinality(S) - 1)

DenseStore ==
    /\ Dense(dbModules)
    /\ \A m \in dbModules : Dense({l \in dbLessons : l.module_id = m.id})

Mutations ==
    {"addModule", "addLesson", "deleteModule", "deleteLesson", "handleDragEnd",
     "handleLessonDragEnd", "processImport", "restoreSnapshot"}

\* C1: after any successful add, delete, reorder, import or restore, the
\* positions of the modules of the store, and of the lessons of each module,
\* are exactly 0..n-1 with no gap and no duplicate.
C1_PositionsContiguous == (lastOp.op \in Mutations /\ lastOp.ok) => DenseStore

\* C2: a snapshot captured from the hierarchy and restored at once leaves the
\* store with the hierarchy it had at the capture: module order, lesson order,
\* names, titles and video markup.
C2_SnapshotRoundTrip ==
    (lastOp.op = "restoreSnapshot" /\ lastOp.ok /\ captured.kind = "snapshot"
        /\ captured.done)
    => Content(dbModules, dbLessons) = captured.content

\* The records of one module name stand next to each other.
Contiguous(records) ==
    \A i, j, k \in DOMAIN records :
        (i < j /\ j < k /\ records[i].module = records[k].module)
        => records[j].module = records[i].module

Reexported ==
    lastOp.op = "fetchModules" /\ lastOp.ok /\ captured.kind = "export" /\ captured.done

\* C3 as stated: exporting, importing the export and exporting again yields
\* the same sequence of (module name, title, video markup), module names
\* repeated or not.
C3_ExportRoundTrip == Reexported => ExportData(modules) = captured.content

\* C3: exporting, importing the export and exporting again yields the same
\* sequence of (module name, title, video markup) whenever the lessons of
\* equally named modules are next to each other in the export; empty video
\* markup stays empty.
C3_ExportRoundTripContiguous ==
    (Reexported /\ Contiguous(captured.content))
    => ExportData(modules) = captured.content

C3_Witness ==
    /\ Reexported
    /\ Contiguous(captured.content)
    /\ Len(captured.content) = 3
    /\ captured.content[1].module = captured.content[2].module
    /\ captured.content[2].module # captured.content[3].module
    /\ captured.content[1].videoIframe = ""
    /\ captured.content[3].videoIframe = "v"
    /\ Len(modules) = 2

\* The text is not valid JSON, not an array, or an element lacks a non-empty
\* module or title.
LacksField(item) ==
    item.module \in {Undef, Str("")} \/ item.title \in {Undef, Str("")}

InvalidText(text) ==
    \/ text.kind # "json"
    \/ ~text.isArray
    \/ \E k \in DOMAIN text.items : LacksField(text.items[k])

StoreUntouched ==
    reqs' = <<>> /\ dbModules' = dbModules /\ dbLessons' = dbLessons

\* C4: validation precedes every write of an import and is all-or-nothing: an
\* invalid text (not JSON, not an array, an element without a non-empty module
\* or title) leaves the preview unset and issues no request; an import without
\* a preview issues no delete and no insert and leaves the store as it was; a
\* preview only ever holds a batch that passed as a whole.
C4_ValidationGatesImport ==
    [][ /\ (lastOp'.op = "validateAndPreview" /\ InvalidText(jsonInput))
            => (~previewData'.set /\ importError' /\ StoreUntouched)
        /\ (lastOp'.op = "processImport" /\ ~previewData.set)
            => (StoreUntouched /\ ~lastOp'.ok)
        /\ previewData'.set => ~InvalidText(JsonArray(previewData'.items))
      ]_vars

C4_Witness ==
    /\ lastOp.op = "processImport"
    /\ ~lastOp.ok
    /\ reqs = <<>>
    /\ jsonInput.kind = "json" /\ jsonInput.isArray /\ Len(jsonInput.items) = 2
    /\ ~LacksField(jsonInput.items[1])
    /\ LacksField(jsonInput.items[2])
    /\ importError
    /\ dbModules # {}

\* The store holds the grouping of the records: the distinct module names in
\* first-seen order at positions 0.., and under each name its records in input
\* order at positions 0...
GroupedAs(items, ms, ls) ==
    LET name(k) == items[k].module[1]
        names == {name(k) : k \in DOMAIN items}
        first(n) == CHOOSE k \in DOMAIN items :
                        name(k) = n /\ \A j \in 1..(k - 1) : name(j) # n
    IN  /\ Cardinality(ms) = Cardinality(names)
        /\ Cardinality(ls) = Len(items)
        /\ \A n \in names :
            \E m \in ms :
                /\ m.name = n
                /\ m.position = Cardinality({o \in names : first(o) < first(n)})
                /\ LET own == SelectSeq(items, LAMBDA it : it.module[1] = n)
                   IN  \A k \in DOMAIN own :
                         \E l \in ls :
                            /\ l.module_id = m.id
                            /\ l.position = k - 1
                            /\ l.title = own[k].title[1]

\* C5: an import groups the records by module name: the modules are created in
\* first-seen order of their names, and the position of a lesson is its ordinal
\* among the records of its module.
C5_ImportGrouping ==
    [][ (lastOp'.op = "processImport" /\ lastOp'.ok)
            => GroupedAs(previewData.items, dbModules', dbLessons') ]_vars

\* records (M1, L1), (M2, L1), (M1, L2) were imported
C5_Witness ==
    /\ lastOp.op = "processImport" /\ lastOp.ok
    /\ \E m1, m2 \in dbModules :
        /\ m1.name = "M1" /\ m1.position = 0
        /\ m2.name = "M2" /\ m2.position = 1
        /\ \E a, b, c \in dbLessons :
            /\ a.module_id = m1.id /\ a.title = "L1" /\ a.position = 0
            /\ b.module_id = m1.id /\ b.title = "L2" /\ b.position = 1
            /\ c.module_id = m2.id /\ c.title = "L1" /\ c.position = 0

Inserts(table) == SelectSeq(reqs, LAMBDA r : r.kind = "insert" /\ r.table = table)

\* C6: the positions a bulk replace (import or restore) writes are the ordinals
\* of the input sequence: the k-th module inserted gets position k-1, the j-th
\* lesson of a module position j-1, whatever position the input carries.
C6_PositionsFromOrder ==
    lastOp.op \in {"processImport", "restoreSnapshot"}
    => /\ \A k \in DOMAIN Inserts("modules") :
            Inserts("modules")[k].rows[1].position = k - 1
       /\ \A k \in DOMAIN Inserts("lessons") :
            \A j \in DOMAIN Inserts("lessons")[k].rows :
                Inserts("lessons")[k].rows[j].position = j - 1

\* What a bulk replace with the inserts plan leaves in an emptied store.
ContentAfter(plan) ==
    LET db == DbApplyAll([modules |-> {}, lessons |-> {}], plan)
    IN  Content(db.modules, db.lessons)

\* The flattening of a tree loses nothing: every module has a lesson and no
\* two modules share a name.
Flattens(tree) ==
    /\ \A i \in DOMAIN tree : tree[i].lessons # <<>>
    /\ \A i, j \in DOMAIN tree : tree[i].name = tree[j].name => i = j

\* C7: restoring a snapshot tree and importing the flat records obtained by
\* flattening the tree in order leave the store with the same positions.
C7_RestoreImportEquivalent ==
    LET tree == SnapshotData(modules).modules
        flat == JsonStringify(ExportData(tree)).items
    IN  (~loading /\ Flattens(tree))
        => ContentAfter(RestoreInserts(tree, {}, {}))
           = ContentAfter(ImportInserts(GroupByModule(flat, <<>>), 0, {}, {}))

\* new is old with the element moved taken out and put back at the index the
\* element target had in old; all other elements keep their relative order.
SingleMove(old, new, moved, target) ==
    /\ Len(new) = Len(old)
    /\ \E i \in DOMAIN old : old[i].id = target /\ new[i].id = moved
    /\ SelectSeq(new, LAMBDA e : e.id # moved) = SelectSeq(old, LAMBDA e : e.id # moved)
    /\ Range(new) = Range(old)

Present(s, a, b) == a # b /\ {a, b} \subseteq Range(Ids(s))

\* C8: a drop of an item on another item of its list is a single-element move:
\* the moved item leaves its index and is put back at the index the target had
\* before the move, the others keep their relative order, and the positions
\* written are the indices of that order.  Modules and lessons alike.
C8_SingleElementMove ==
    [][ /\ (lastOp'.op = "handleDragEnd" /\ Present(modules, lastOp'.a, lastOp'.b))
            => /\ SingleMove(modules, modules', lastOp'.a, lastOp'.b)
               /\ reqs' = PositionWrites("modules", modules')
        /\ (lastOp'.op = "handleLessonDragEnd")
            => \A i \in DOMAIN modules :
                 /\ (modules[i].id = active.card
                       /\ Present(modules[i].lessons, lastOp'.a, lastOp'.b))
                    => /\ SingleMove(modules[i].lessons, modules'[i].lessons,
                                     lastOp'.a, lastOp'.b)
                       /\ reqs' = PositionWrites("lessons", modules'[i].lessons)
                 /\ modules[i].id # active.card => modules'[i] = modules[i]
      ]_vars

\* [A, B, C] with A dropped on C has become [B, C, A], in the list and in the store
C8_Witness ==
    /\ lastOp.op = "handleDragEnd" /\ lastOp.ok
    /\ Len(modules) = 3
    /\ modules[3].id = lastOp.a /\ modules[3].position = 0
    /\ modules[2].id = lastOp.b /\ modules[2].position = 2
    /\ modules[1].position = 1
    /\ \A i \in 1..3 : \E m \in dbModules : m.id = modules[i].id /\ m.position = i - 1

Drops == {"handleDragEnd", "handleLessonDragEnd"}

\* C9: a drop on no target, or on the dragged item itself, changes nothing: the
\* list keeps its order and no position is written.
C9_DropOnSelfOrNothing ==
    [][ (lastOp'.op \in Drops /\ (lastOp'.b = 0 \/ lastOp'.b = lastOp'.a))
            => (modules' = modules /\ StoreUntouched) ]_vars

\* a lesson of a module with several lessons was dropped on itself
C9_Witness ==
    /\ lastOp.op = "handleLessonDragEnd"
    /\ lastOp.a = lastOp.b
    /\ reqs = <<>>
    /\ \E i \in DOMAIN modules :
        Len(modules[i].lessons) = 2 /\ lastOp.a \in Range(Ids(modules[i].lessons))

\* C10: a drop whose dragged item or target is not in the list any more changes
\* nothing and writes no position.
C10_AbsentItemNoOp ==
    [][ /\ (lastOp'.op = "handleDragEnd"
              /\ ~({lastOp'.a, lastOp'.b} \ {0} \subseteq Range(Ids(modules))))
            => (modules' = modules /\ StoreUntouched)
        /\ (lastOp'.op = "handleLessonDragEnd")
            => \A i \in DOMAIN modules :
                 (modules[i].id = active.card
                    /\ ~({lastOp'.a, lastOp'.b} \ {0}
                            \subseteq Range(Ids(modules[i].lessons))))
                 => (modules' = modules /\ StoreUntouched)
      ]_vars

LessonInsert(r) == r.kind = "insert" /\ r.table = "lessons"

\* C11: in every reachable store state the module of every lesson exists; after
\* a successful deleteModule no lesson of the deleted module remains; in an
\* import or restore the lessons of a module are inserted right after the
\* insert of that module has succeeded, under the id that insert returned.
C11_ReferentialIntegrity ==
    /\ \A l \in dbLessons : \E m \in dbModules : m.id = l.module_id
    /\ (lastOp.op = "deleteModule" /\ lastOp.ok)
        => \A l \in dbLessons : l.module_id # lastOp.a
    /\ lastOp.op \in {"processImport", "restoreSnapshot"}
        => \A k \in DOMAIN reqs :
             LessonInsert(reqs[k])
             => /\ k > 1
                /\ reqs[k - 1].kind = "insert" /\ reqs[k - 1].table = "modules"
                /\ \A j \in DOMAIN reqs[k].rows :
                      reqs[k].rows[j].module_id = reqs[k - 1].id
                /\ \E m \in dbModules : m.id = reqs[k - 1].id

\* a restore has put back two modules with their lessons
C11_Witness ==
    /\ lastOp.op = "restoreSnapshot" /\ lastOp.ok
    /\ Cardinality(dbModules) = 2
    /\ \A m \in dbModules : \E l \in dbLessons : l.module_id = m.id

BulkOps == {"processImport", "restoreSnapshot"}

\* The rows of all insert requests of reqs into table.
RECURSIVE InsertedRows(_, _)
InsertedRows(rs, table) ==
    IF rs = <<>> THEN {}
    ELSE (IF Head(rs).kind = "insert" /\ Head(rs).table = table
          THEN Range(Head(rs).rows) ELSE {})
         \cup InsertedRows(Tail(rs), table)

\* C12: a successful import or restore is a full wipe, not a merge: it starts
\* with the delete of every module, and afterwards the store holds exactly the
\* modules and lessons it inserted, built from the input (the grouped records
\* of the preview, the tree of the snapshot), and no row that was there before.
C12_FullWipe ==
    [][ (lastOp'.op \in BulkOps /\ lastOp'.ok)
        => /\ reqs'[1] = DeleteAll
           /\ dbModules' = InsertedRows(reqs', "modules")
           /\ dbLessons' = InsertedRows(reqs', "lessons")
           /\ {m.id : m \in dbModules'} \cap {m.id : m \in dbModules} = {}
           /\ {l.id : l \in dbLessons'} \cap {l.id : l \in dbLessons} = {}
           /\ lastOp'.op = "processImport"
                => GroupedAs(previewData.items, dbModules', dbLessons')
           /\ lastOp'.op = "restoreSnapshot"
                => \E k \in DOMAIN snapshots :
                      /\ snapshots[k].id = lastOp'.a
                      /\ Content(dbModules', dbLessons')
                         = ContentAfter(RestoreInserts(snapshots[k].data.modules, {}, {}))
      ]_vars

\* an import has replaced a store that held other rows
C12_Witness ==
    /\ lastOp.op = "processImport" /\ lastOp.ok
    /\ dbModules # {}
    /\ \A m \in dbModules : m.id > 1
    /\ \A l \in dbLessons : l.id > 1

\* The requests of reqs that succeeded when the last one failed.
Succeeded(rs) == SubSeq(rs, 1, Len(rs) - 1)

\* C13: a bulk replace that fails is not rolled back: when an insert fails
\* after the delete-all succeeded, the rows that were there before are gone,
\* the failed request is the last one issued, and the store holds exactly the
\* rows inserted before the failure.
C13_NoRollback ==
    [][ (lastOp'.op \in BulkOps /\ ~lastOp'.ok /\ Len(reqs') > 1)
        => /\ reqs'[1] = DeleteAll
           /\ dbModules' = InsertedRows(Succeeded(reqs'), "modules")
           /\ dbLessons' = InsertedRows(Succeeded(reqs'), "lessons")
           /\ {m.id : m \in dbModules'} \cap {m.id : m \in dbModules} = {}
           /\ {l.id : l \in dbLessons'} \cap {l.id : l \in dbLessons} = {}
      ]_vars

\* the insert of the lessons of the second module failed: the store holds the
\* first module with its lessons and the second module without any
C13_Witness ==
    /\ lastOp.op \in BulkOps /\ ~lastOp.ok
    /\ Len(reqs) = 5
    /\ LessonInsert(reqs[5])
    /\ Cardinality(dbModules) = 2
    /\ \E m \in dbModules : \A l \in dbLessons : l.module_id # m.id
    /\ \E m \in Range(modules) : m.id \notin {d.id : d \in dbModules}

Owner(l) == CHOOSE m \in dbModules : m.id = l.module_id

FeedRecord(l) ==
    [module |-> Owner(l).name, title |-> l.title,
     videoIframe |-> IF l.video_iframe = Null THEN "" ELSE l.video_iframe,
     url |-> Null]

\* C14: the feed returns exactly one record per lesson of the store, ordered
\* by the position of the module and then by the position of the lesson within
\* its module, each record {module: name of the owning module, title,
\* videoIframe ("" when the stored markup is NULL), url: null}; a module
\* without lessons contributes no record.
C14_FeedContent ==
    (lastOp.op = "serve" /\ lastOp.ok)
    => /\ lastOp.a = 200
       /\ lastOp.b.kind = "array"
       /\ Len(lastOp.b.items) = Cardinality(dbLessons)
       /\ \E f \in [DOMAIN lastOp.b.items -> dbLessons] :
            /\ \A i, j \in DOMAIN f : f[i] = f[j] => i = j
            /\ \A i \in DOMAIN f : lastOp.b.items[i] = FeedRecord(f[i])
            /\ \A i, j \in DOMAIN f :
                 i < j => /\ Owner(f[i]).position <= Owner(f[j]).position
                          /\ f[i].module_id = f[j].module_id
                               => f[i].position <= f[j].position

\* two lessons of one module come in the order of their positions, the stored
\* NULL markup as "", and the module without lessons is left out
C14_Witness ==
    /\ lastOp.op = "serve" /\ lastOp.ok
    /\ Cardinality(dbModules) = 2
    /\ Len(lastOp.b.items) = 2
    /\ \E l1, l2 \in dbLessons :
         /\ l1.module_id = l2.module_id
         /\ l1.position < l2.position
         /\ l1.id > l2.id
         /\ l1.video_iframe = Null
         /\ l2.video_iframe = "v"
         /\ lastOp.b.items[1].videoIframe = ""
         /\ lastOp.b.items[2].videoIframe = "v"

\* C15: when the query of the feed fails the endpoint answers with status 500
\* and a body {error, message}, never with an array; it answers 200 with the
\* array only when the query succeeded.
C15_FeedFailure ==
    lastOp.op = "serve"
    => /\ ~lastOp.ok => (lastOp.a = 500 /\ lastOp.b.kind = "object"
                          /\ DOMAIN lastOp.b = {"kind", "error", "message"})
       /\ (lastOp.a = 200 \/ lastOp.b.kind = "array") => lastOp.ok

\* the query over a store with lessons failed
C15_Witness ==
    /\ lastOp.op = "serve" /\ ~lastOp.ok
    /\ lastOp.a = 500
    /\ dbLessons # {}
    /\ faults = 0

\* C16: a failed add creates no phantom entry: when the insert of addModule or
\* addLesson fails, the list of modules and the lesson list of every module
\* are what they were before.
C16_NoPhantomEntry ==
    [][ (lastOp'.op \in {"addModule", "addLesson"} /\ ~lastOp'.ok)
        => (modules' = modules /\ dbModules' = dbModules /\ dbLessons' = dbLessons)
      ]_vars

\* the insert of a second module failed; the list still holds the first only
C16_Witness ==
    /\ lastOp.op = "addModule" /\ ~lastOp.ok
    /\ Len(modules) = 1
    /\ Len(modules[1].lessons) = 1
    /\ Cardinality(dbModules) = 1
    /\ reqs # <<>>

Unpositioned(S) == {[r EXCEPT !.position = 0] : r \in S}

\* C18: a module reorder changes only the order of the modules: the lesson
\* list of every module and every lesson position stay as they are.  A lesson
\* reorder in a module changes only the order and positions of the lessons of
\* that module: the order and positions of the modules and the lessons of the
\* other modules stay as they are.  A drop whose target carries another prefix
\* than the dragged item changes nothing.
C18_ScopeDiscipline ==
    [][ /\ lastOp'.op = "handleDragEnd"
            => /\ Range(modules') = Range(modules)
               /\ dbLessons' = dbLessons
               /\ Unpositioned(dbModules') = Unpositioned(dbModules)
        /\ lastOp'.op = "handleLessonDragEnd"
            => /\ dbModules' = dbModules
               /\ \A i \in DOMAIN modules :
                    /\ modules'[i].id = modules[i].id
                    /\ modules'[i].position = modules[i].position
                    /\ Range(modules'[i].lessons) = Range(modules[i].lessons)
                    /\ modules[i].id # active.card => modules'[i] = modules[i]
               /\ Unpositioned(dbLessons') = Unpositioned(dbLessons)
               /\ \A l \in dbLessons : l.module_id # active.card => l \in dbLessons'
        /\ (lastOp'.op \in Drops /\ lastOp'.target \notin {"none", active.type})
            => (modules' = modules /\ StoreUntouched)
      ]_vars

\* a module card was dropped on a lesson of another module
C18_Witness ==
    /\ lastOp.op = "handleDragEnd"
    /\ lastOp.target = "lesson"
    /\ Len(modules) = 2
    /\ \E i \in 1..2 :
          /\ modules[i].id = lastOp.a
          /\ modules[i].lessons = <<>>
          /\ lastOp.b \in Range(Ids(modules[3 - i].lessons))
    /\ reqs = <<>>

\* C19: a stored snapshot is immutable: no operation but deleteSnapshot takes
\* a snapshot away or changes its name or tree, and deleteSnapshot touches only
\* the snapshot it names; editing the hierarchy, restoring and capturing
\* further snapshots leave it as it is, so that restoring it gives the result
\* its tree determines, every time.
C19_SnapshotImmutable ==
    [][ /\ \A k \in DOMAIN dbSnapshots :
              (lastOp'.op = "deleteSnapshot" /\ lastOp'.a = dbSnapshots[k].id)
              \/ dbSnapshots[k] \in Range(dbSnapshots')
        /\ (lastOp'.op = "restoreSnapshot" /\ lastOp'.ok)
            => \E k \in DOMAIN dbSnapshots :
                  /\ dbSnapshots[k].id = lastOp'.a
                  /\ Content(dbModules', dbLessons')
                     = ContentAfter(RestoreInserts(dbSnapshots[k].data.modules, {}, {}))
      ]_vars

\* the older of two snapshots that differ was restored after the list had
\* been edited and captured again
C19_Witness ==
    /\ lastOp.op = "restoreSnapshot" /\ lastOp.ok
    /\ Len(dbSnapshots) = 2
    /\ lastOp.a = dbSnapshots[2].id
    /\ Len(dbSnapshots[2].data.modules) = 2
    /\ Len(dbSnapshots[1].data.modules) = 3
    /\ Cardinality(dbModules) = 2

\* The writes of a reorder from old to new go to entities whose index moved.
OnlyChanged(old, new, writes) ==
    \A k \in DOMAIN writes : FindIndex(new, writes[k].id) # FindIndex(old, writes[k].id)

\* C20: the persistence of a reorder writes a position only for the entities
\* whose index differs from the one before the move, and none for an entity
\* whose index is unchanged.  Modules and lessons alike.
C20_WritesOnlyChanged ==
    [][ /\ (lastOp'.op = "handleDragEnd" /\ Present(modules, lastOp'.a, lastOp'.b))
            => OnlyChanged(modules, modules', reqs')
        /\ (lastOp'.op = "handleLessonDragEnd")
            => \A i \in DOMAIN modules :
                 (modules[i].id = active.card
                    /\ Present(modules[i].lessons, lastOp'.a, lastOp'.b))
                 => OnlyChanged(modules[i].lessons, modules'[i].lessons, reqs')
      ]_vars

\* The steps in which a handler that changes the hierarchy is called.
Calls == {"addModule:call", "deleteModule:call", "handleDragEnd:call"}

\* C21: a mutation is applied to the list when its handler is called, before
\* the store has answered: the added module is in the list, the deleted one is
\* gone, the list is in the new order; and the session is not loading.
C21_Optimistic ==
    [][ (lastOp'.op \in Calls /\ lastOp'.a # 0)
        => LET t == tasks'[lastOp'.a] IN
           /\ ~loading'
           /\ t.op = "addModule"
                => /\ Len(modules') = Len(modules) + 1
                   /\ modules'[Len(modules')].name = t.arg[1]
           /\ t.op = "deleteModule"
                => \A i \in DOMAIN modules' : modules'[i].id # t.arg[1]
           /\ t.op = "handleDragEnd"
                => SingleMove(modules, modules', t.arg[1], t.arg[2])
      ]_vars

C23_NoRetries ==
    [][ lastOp'.op \in Mutations
        => /\ \A i, j \in DOMAIN reqs' : i < j => reqs'[i] # reqs'[j]
           /\ LET done == IF lastOp'.ok THEN reqs' ELSE Succeeded(reqs')
                  db == DbApplyAll(Db, done)
              IN  dbModules' = db.modules /\ dbLessons' = db.lessons
      ]_vars

\* the second of three position writes failed
C23_Witness ==
    /\ lastOp.op = "handleLessonDragEnd" /\ ~lastOp.ok
    /\ \E i \in DOMAIN modules : Len(modules[i].lessons) = 3
    /\ Len(reqs) = 2
    /\ \E l \in dbLessons : l.id = reqs[2].id /\ l.position # reqs[2].rows[1].position

\* C24: a new module is inserted with the number of modules of the list as its
\* position, a new lesson with the number of lessons its module has in the
\* list, as they are when the handler is called.
C24_AddPosition ==
    [][ /\ lastOp'.op = "addModule"
            => /\ reqs'[1].rows[1].position = Len(modules)
               /\ lastOp'.ok => \E m \in dbModules' :
                                   m.id = lastOp'.a /\ m.position = Len(modules)
        /\ lastOp'.op = "addLesson"
            => \E i \in DOMAIN modules :
                  /\ modules[i].id = lastOp'.b
                  /\ reqs'[1].rows[1].position = Len(modules[i].lessons)
                  /\ lastOp'.ok => \E l \in dbLessons' :
                                      /\ l.id = lastOp'.a /\ l.module_id = lastOp'.b
                                      /\ l.position = Len(modules[i].lessons)
      ]_vars

\* a module added to a list that had lost its first module: its position is
\* the count 2, which the last module holds already
C24_Witness ==
    /\ lastOp.op = "addModule" /\ lastOp.ok
    /\ Len(modules) = 3
    /\ modules[3].id = lastOp.a
    /\ modules[3].position = 2
    /\ modules[2].position = 2

\* C25: the position writes of two sessions that reorder the same modules are
\* not serialised: while a pass of each session is under way, the next write of
\* either can be the next one the store takes.  (The witness is a run in which
\* both passes end successfully and leave two modules on one position.)
C25_PassesInterleave ==
    ((\E k \in Awaiting : tasks[k].op = "handleDragEnd") /\ peer.todo # <<>>)
        => (ENABLED UpdateModulePositionsAnswer
            /\ ENABLED PeerUpdateModulePositionsAnswer)

\* the pass of the second session has ended with its last write, no pass of the
\* first one is left, the two target orders differ, and the store holds a
\* module on a position that the second session's pass did not leave it on,
\* and a duplicate
C25_Witness ==
    /\ lastOp.op = "peer:updateModulePositions" /\ lastOp.ok /\ lastOp.b = 1
    /\ peer.todo = <<>>
    /\ Awaiting = {}
    /\ ~loading
    /\ Ids(modules) # Ids(peer.modules)
    /\ \E m \in dbModules : m.position # FindIndex(peer.modules, m.id)
    /\ \E m, n \in dbModules : m # n /\ m.position = n.position

\* The local actions of one session that change the hierarchy entity by entity.
Edits ==
    {"addModule", "addLesson", "deleteModule", "deleteLesson", "handleDragEnd",
     "handleLessonDragEnd"}

\* C26: after every operation of the session that went through (add, delete,
\* reorder with all its writes), the list is what the store holds: the same
\* modules and lessons in the same order, each with the position stored for it.
C26_LocalEqualsStore ==
    [][ (lastOp'.op \in Edits /\ lastOp'.ok)
            => modules' \in FetchResults(dbModules', dbLessons') ]_vars

\* After the pass over the order new that failed at index k, the rows of S:
\* those before k are on their index, the others where they were in old.
StoppedAt(new, k, S, old) ==
    \A i \in DOMAIN new :
        \A x \in S :
            x.id = new[i].id
            => IF i - 1 < k THEN x.position = i - 1
               ELSE \E y \in old : y.id = x.id /\ y.position = x.position

\* C27: a pass that rewrites positions goes up the indices and stops at the
\* first write that fails: the entities before that index are stored on their
\* index, the entities from it on keep the position they had.
C27_PassStopsAtFailure ==
    [][ /\ (lastOp'.op = "handleDragEnd" /\ ~lastOp'.ok)
            => /\ reqs' = SubSeq(PositionWrites("modules", modules'), 1, Len(reqs'))
               /\ StoppedAt(modules', Len(reqs') - 1, dbModules', dbModules)
               /\ dbLessons' = dbLessons
        /\ (lastOp'.op = "handleLessonDragEnd" /\ ~lastOp'.ok)
            => \A i \in DOMAIN modules :
                 modules[i].id = active.card
                 => /\ reqs' = SubSeq(PositionWrites("lessons", modules'[i].lessons),
                                      1, Len(reqs'))
                    /\ StoppedAt(modules'[i].lessons, Len(reqs') - 1, dbLessons', dbLessons)
                    /\ dbModules' = dbModules
      ]_vars

\* [A, B, C] with C dropped on A: the write for C went through, the one for A
\* failed, and A and C are both on position 0
C27_Witness ==
    /\ lastOp.op = "handleDragEnd" /\ ~lastOp.ok
    /\ Len(modules) = 3
    /\ Len(reqs) = 2
    /\ \E m, n \in dbModules :
          /\ m.id = modules[1].id /\ n.id = modules[2].id
          /\ m.position = 0 /\ n.position = 0

\* The ids of the modules and, module by module, of the lessons of a list.
TreeIds(ms) == {<<m.id, {l.id : l \in Range(m.lessons)}>> : m \in Range(ms)}

\* The same for the store.
StoreTreeIds ==
    {<<m.id, {l.id : l \in {x \in dbLessons : x.module_id = m.id}}>> : m \in dbModules}

\* C28: no update of the list is lost when handlers of one session overlap:
\* once all of them have returned (each request went through), the list holds
\* what every one of them added, which is what the store holds.
C28_NoLostUpdate ==
    (Awaiting = {} /\ ~loading) => TreeIds(modules) = StoreTreeIds

\* The restores of the session that have been called and have not returned.
Restoring == {k \in Awaiting : tasks[k].op \in BulkOps}

\* C29: at most one bulk replace of the session is under way at a time, and
\* when a restore has gone through and none is left, the store holds one
\* module for each module of the snapshot.
C29_OneReplaceAtATime ==
    /\ Cardinality(Restoring) <= 1
    /\ (lastOp.op = "restoreSnapshot" /\ lastOp.ok /\ lastOp.b = 1 /\ Restoring = {})
        => \E i \in DOMAIN dbSnapshots :
              Cardinality(dbModules) = Len(dbSnapshots[i].data.modules)

\* C30: an import does not destroy without replacing: an import that went
\* through over a store that held modules leaves modules in the store, and an
\* empty JSON array is not accepted by the validation.
C30_ImportReplaces ==
    [][ /\ (lastOp'.op = "processImport" /\ lastOp'.ok /\ dbModules # {})
            => dbModules' # {}
        /\ (lastOp'.op = "validateAndPreview" /\ jsonInput = JsonArray(<<>>))
            => ~previewData'.set
      ]_vars
====
